---- MODULE Spec2Model ----
(***************************************************************************)
(* Trajectory pipeline of Platform_suivi: generator, anomaly injector,     *)
(* anomaly detector and the simulation orchestrator, with the tables       *)
(* Trajet and Anomalie and the IoT Hub publish channel.                    *)
(*                                                                         *)
(* Units.  Timestamps are whole minutes since midnight of day 0, speeds    *)
(* whole km/h, latitudes and longitudes thousandths of a degree.  All      *)
(* points of the model lie on one meridian (the missions carry a           *)
(* predefined route along it and the longitude jitters drawn are 0), where *)
(* the haversine distance is exactly proportional to the difference of     *)
(* latitudes.                                                              *)
(***************************************************************************)
EXTENDS Integers, Sequences, FiniteSets, TLC

(***************************************************************************)
(* Bounds of the model                                                     *)
(***************************************************************************)
NumMissions == 2
MaxNumPoints == 20
MaxPasses == 2
MaxGenerations == 1

(***************************************************************************)
(* Program constants                                                       *)
(***************************************************************************)
MinNumPoints == 20
NoneId == 0

Max(a, b) == IF a >= b THEN a ELSE b
Min(a, b) == IF a <= b THEN a ELSE b
Abs(a) == IF a >= 0 THEN a ELSE -a

\* a Python list whose items are computed once, when the list is built
AsList(f) == <<>> \o f

\* sum(s[lo..hi])
RECURSIVE SumRange(_, _, _)
SumRange(s, lo, hi) ==
    IF lo > hi THEN 0
    ELSE IF lo = hi THEN s[lo]
    ELSE LET mid == (lo + hi) \div 2
         IN  SumRange(s, lo, mid) + SumRange(s, mid + 1, hi)

SumSeq(s) == SumRange(s, 1, Len(s))

\* the lists ss[lo..hi], one after the other
RECURSIVE FlattenRange(_, _, _)
FlattenRange(ss, lo, hi) ==
    IF lo > hi THEN <<>>
    ELSE IF lo = hi THEN ss[lo]
    ELSE LET mid == (lo + hi) \div 2
         IN  FlattenRange(ss, lo, mid) \o FlattenRange(ss, mid + 1, hi)

FlattenSeq(ss) == FlattenRange(ss, 1, Len(ss))

(***************************************************************************)
(* Mission table (read-only to the pipeline)                               *)
(***************************************************************************)
\* a / b rounded to the resolution of the model (half to even, as
\* datetime.timedelta rounds to its resolution), b > 0
RoundDiv(a, b) ==
    LET q == a \div b
        r == a - q * b
    IN  IF 2 * r < b THEN q
        ELSE IF 2 * r > b THEN q + 1
        ELSE IF q % 2 = 0 THEN q ELSE q + 1

MissionIds == 1..NumMissions

\* dateDebut / dateFin of the stored missions: 08:00 of day 0, a 7 hour
\* mission for odd ids and a 2 hour mission for even ids
MissionDateDebut(m) == 480
MissionDateFin(m) == IF m % 2 = 1 THEN 480 + 420 ELSE 480 + 120

\* trajet_predefini, already parsed: waypoints (latitude, longitude)
MissionRoute(m) ==
    [k \in 1..4 |-> <<33500 + 100 * m + 60 * (k - 1), -7500>>]

Mission(m) ==
    [id |-> m, statut |-> "EN_COURS",
     dateDebut |-> MissionDateDebut(m), dateFin |-> MissionDateFin(m),
     trajet_predefini |-> MissionRoute(m)]

(***************************************************************************)
(* Points.  A TrajectPoint is the in-memory point (id = NoneId for a point *)
(* that has no row yet); a row of the table Trajet has no mission_start /  *)
(* mission_end.                                                            *)
(***************************************************************************)
TrajectPoint(id, mission_id, timestamp, latitude, longitude, vitesse, mission_start, mission_end) ==
    [id |-> id, mission_id |-> mission_id, timestamp |-> timestamp,
     latitude |-> latitude, longitude |-> longitude, vitesse |-> vitesse,
     mission_start |-> mission_start, mission_end |-> mission_end]

TrajetRow(id, p) ==
    [id |-> id, mission_id |-> p.mission_id, timestamp |-> p.timestamp,
     latitude |-> p.latitude, longitude |-> p.longitude, vitesse |-> p.vitesse]

\* rows of a query ... ORDER BY timestamp (rows of equal timestamp in the
\* order of their primary key)
OrderByTimestamp(rows) ==
    LET Position(r) == Cardinality({q \in rows :
                          \/ q.timestamp < r.timestamp
                          \/ q.timestamp = r.timestamp /\ q.id < r.id})
        placed == {<<Position(r), r>> : r \in rows}
    IN  AsList([k \in 1..Cardinality(rows) |->
                  (CHOOSE p \in placed : p[1] = k - 1)[2]])

(***************************************************************************)
(* TrajectoryGeneratorService                                              *)
(***************************************************************************)
TerrainSpeeds(terrain_type) ==
    IF terrain_type = "urban" THEN <<20, 50>>
    ELSE IF terrain_type = "highway" THEN <<60, 120>>
    ELSE IF terrain_type = "rural" THEN <<40, 80>>
    ELSE IF terrain_type = "mountain" THEN <<15, 40>>
    ELSE <<20, 50>>

\* speed_variation is the draw uniform(-10, 10); stop_speed is -1 when the
\* draw random() < 0.1 fails and the draw uniform(0, 5) when it succeeds
generate_realistic_speed(previous_speed, terrain_type, speed_variation, stop_speed) ==
    LET band == TerrainSpeeds(terrain_type)
        new_speed == Max(band[1], Min(band[2], previous_speed + speed_variation))
    IN  IF stop_speed >= 0 THEN stop_speed ELSE new_speed

RECURSIVE SpeedWalk(_, _, _, _, _)
SpeedWalk(n, current_speed, terrain_type, speed_variation, stop_every) ==
    IF n = 0 THEN <<>>
    ELSE LET stop_speed == IF stop_every > 0 /\ n % stop_every = 0 THEN 0 ELSE -1
             s == generate_realistic_speed(current_speed, terrain_type,
                                           speed_variation, stop_speed)
         IN  <<s>> \o SpeedWalk(n - 1, s, terrain_type, speed_variation, stop_every)

\* core/config.py, in thousandths of a degree
MOROCCO_BOUNDS ==
    [min_lat |-> 27600, max_lat |-> 35900, min_lon |-> -13200, max_lon |-> -1000]

MAJOR_CITIES ==
    <<<<33573, -7590>>, <<34021, -6842>>, <<31630, -7981>>, <<34018, -5008>>,
      <<35760, -5834>>, <<30428, -9598>>, <<33894, -5547>>, <<34681, -1909>>,
      <<34261, -6580>>, <<35589, -5363>>>>

\* num_points waypoints on the line from start_point to end_point, each moved
\* by the draw variation (uniform(-0.01, 0.01)) and clamped to MOROCCO_BOUNDS
generate_route_waypoints(start_point, end_point, num_points, variation) ==
    AsList([k \in 1..num_points |->
        LET i == k - 1
            lat == start_point[1]
                     + RoundDiv((end_point[1] - start_point[1]) * i, num_points - 1)
                     + variation
            lon == start_point[2]
                     + RoundDiv((end_point[2] - start_point[2]) * i, num_points - 1)
                     + variation
        IN  <<Max(MOROCCO_BOUNDS.min_lat, Min(MOROCCO_BOUNDS.max_lat, lat)),
              Max(MOROCCO_BOUNDS.min_lon, Min(MOROCCO_BOUNDS.max_lon, lon))>>])

\* the draws g of one call: the two cities (random.choice, distinct), the
\* variation of the waypoints, num_points = randint(20, 50), the initial speed
\* uniform(30, 60), the speed walk, and the variation of the positions
\* uniform(-0.005, 0.005).  The interval between two points is a timedelta,
\* rounded to the resolution of the timestamps.
generate_trajectory_points(mission, g) ==
    LET predefined_route == mission.trajet_predefini
        waypoints == IF predefined_route # <<>> THEN predefined_route
                     ELSE generate_route_waypoints(MAJOR_CITIES[g.start_city],
                                                   MAJOR_CITIES[g.end_city], 8,
                                                   g.waypoint_variation)
        mission_duration == IF mission.dateFin - mission.dateDebut <= 0 THEN 120
                            ELSE mission.dateFin - mission.dateDebut
        time_interval == RoundDiv(mission_duration, g.num_points)
        speeds == SpeedWalk(g.num_points, g.initial_speed, g.terrain_type,
                            g.speed_variation, g.stop_every)
    IN  AsList([k \in 1..g.num_points |->
            LET i == k - 1
                waypoint_index == Min((i * Len(waypoints)) \div g.num_points,
                                      Len(waypoints) - 1)
                base == waypoints[waypoint_index + 1]
            IN  TrajectPoint(NoneId, mission.id, mission.dateDebut + i * time_interval,
                             base[1] + g.lat_variation, base[2] + g.lon_variation,
                             speeds[k], mission.dateDebut, mission.dateFin)])

\* the draws of the trajectories that are stored before the calls
StoredDraw ==
    [start_city |-> 1, end_city |-> 2, waypoint_variation |-> 0,
     num_points |-> MinNumPoints, initial_speed |-> 45, terrain_type |-> "urban",
     speed_variation |-> 5, stop_every |-> 7, lat_variation |-> 0, lon_variation |-> 0]

\* the INSERTs of save_trajectory_points: one new row per point, ids from
\* the table's auto-increment counter
InsertRows(seq, points) ==
    {TrajetRow(seq + k, points[k]) : k \in 1..Len(points)}

(***************************************************************************)
(* AnomalyInjectionService: the five transforms.  Every random draw of a   *)
(* transform is a parameter.  An index drawn by randint(lo, hi) is given   *)
(* by a draw u in 0..100: RandInt(lo, hi, u).                              *)
(***************************************************************************)
RandInt(lo, hi, u) == lo + ((hi - lo) * u) \div 100

\* int(a / b), b > 0: truncation towards zero
TruncDiv(a, b) == IF a >= 0 THEN a \div b ELSE -((-a) \div b)

\* list.insert(index, x), index >= 0 (0-based; beyond the end: append)
ListInsert(list, index, x) ==
    LET k == Min(index, Len(list))
    IN  SubSeq(list, 1, k) \o <<x>> \o SubSeq(list, k + 1, Len(list))

\* list[index:] (0-based)
ListFrom(list, index) == SubSeq(list, index + 1, Len(list))

_validate_trajectory(trajectory) ==
    /\ trajectory # <<>>
    /\ \A k \in 1..Len(trajectory) :
          /\ -90000 <= trajectory[k].latitude /\ trajectory[k].latitude <= 90000
          /\ -180000 <= trajectory[k].longitude /\ trajectory[k].longitude <= 180000

\* draws: early_ratio (percent, uniform(0.3, 0.7)), the speed of the return
\* points (uniform(20, 60)); the detour offsets drawn are 0
_inject_early_return_anomaly(trajectory, early_ratio, return_speed) ==
    IF ~_validate_trajectory(trajectory) \/ Len(trajectory) < 10 THEN trajectory
    ELSE
      LET return_index == (Len(trajectory) * early_ratio) \div 100
          return_point == trajectory[return_index + 1]
          start_point == trajectory[1]
          \* return_duration = remaining / 2 (minutes); one point every 5 minutes
          remaining == return_point.mission_end - return_point.timestamp
          num_return_points == Max(5, TruncDiv(remaining, 10))
          new_point(i) ==
              TrajectPoint(NoneId, return_point.mission_id,
                  return_point.timestamp + RoundDiv(i * remaining, 2 * num_return_points),
                  return_point.latitude
                      + RoundDiv((start_point.latitude - return_point.latitude) * i,
                                 num_return_points),
                  return_point.longitude
                      + RoundDiv((start_point.longitude - return_point.longitude) * i,
                                 num_return_points),
                  return_speed, return_point.mission_start, return_point.mission_end)
      IN  SubSeq(trajectory, 1, return_index)
              \o [k \in 1..num_return_points |-> new_point(k - 1)]

\* draws: deviation_duration (minutes, uniform(15, 60)), u_start for
\* start_index, lat_offset (the offset of the deviated points, thousandths of
\* a degree, |offset| <= 10 km / 111), the speed uniform(15, 45)
_inject_route_deviation_anomaly(trajectory, deviation_duration, u_start, lat_offset, deviation_speed) ==
    IF ~_validate_trajectory(trajectory) \/ Len(trajectory) < 6 THEN trajectory
    ELSE
      LET n == Len(trajectory)
          start_index == RandInt(n \div 4, (3 * n) \div 4, u_start)
          deviation_start == trajectory[start_index + 1]
          num_deviation_points == Max(3, deviation_duration \div 5)
          deviated_point(i) ==
              TrajectPoint(NoneId, deviation_start.mission_id,
                  deviation_start.timestamp + i * 5,
                  deviation_start.latitude + lat_offset,
                  deviation_start.longitude,
                  deviation_speed,
                  deviation_start.mission_start, deviation_start.mission_end)
          resume_index == Min(start_index + num_deviation_points, n - 1)
      IN  SubSeq(trajectory, 1, start_index)
              \o [k \in 1..num_deviation_points |-> deviated_point(k - 1)]
              \o ListFrom(trajectory, resume_index)

RECURSIVE InsertStopPoints(_, _, _, _, _, _)
InsertStopPoints(modified_trajectory, stop_point, stop_index, i, num_stop_points, stop_speed) ==
    IF i >= num_stop_points THEN modified_trajectory
    ELSE InsertStopPoints(
            ListInsert(modified_trajectory, stop_index + i + 1,
                TrajectPoint(NoneId, stop_point.mission_id,
                    stop_point.timestamp + i * 10,
                    stop_point.latitude, stop_point.longitude, stop_speed,
                    stop_point.mission_start, stop_point.mission_end)),
            stop_point, stop_index, i + 1, num_stop_points, stop_speed)

RECURSIVE InsertStops(_, _, _, _, _)
InsertStops(modified_trajectory, trajectory, u_stops, stop_duration, stop_speed) ==
    IF u_stops = <<>> THEN modified_trajectory
    ELSE
      LET n == Len(trajectory)
          stop_index == RandInt(n \div 4, (3 * n) \div 4, Head(u_stops))
          stop_point == trajectory[stop_index + 1]
          num_stop_points == Max(2, stop_duration \div 10)
      IN  InsertStops(
              InsertStopPoints(modified_trajectory, stop_point, stop_index, 0,
                               num_stop_points, stop_speed),
              trajectory, Tail(u_stops), stop_duration, stop_speed)

\* draws: stop_duration (minutes, uniform(10, 120)), u_stops (one draw per
\* stop: its length is stop_frequency = randint(1, 3)), the speed
\* uniform(0, 2); the position jitters drawn are 0
_inject_unauthorized_stop_anomaly(trajectory, stop_duration, u_stops, stop_speed) ==
    IF ~_validate_trajectory(trajectory) \/ Len(trajectory) < 5 THEN trajectory
    ELSE InsertStops(trajectory, trajectory, u_stops, stop_duration, stop_speed)

\* a rewriting of the speeds that does not limit the product
_inject_abnormal_speed_anomaly_unlimited(trajectory, speed_factor, duration_min, u_start) ==
    IF ~_validate_trajectory(trajectory) \/ Len(trajectory) < 3 THEN trajectory
    ELSE
      LET n == Len(trajectory)
          start_index == RandInt(0, n \div 2, u_start)
          end_index == Min(start_index + duration_min \div 5, n - 1)
      IN  AsList([k \in 1..n |->
             IF start_index <= k - 1 /\ k - 1 < end_index
             THEN [trajectory[k] EXCEPT !.vitesse = (@ * speed_factor) \div 10]
             ELSE trajectory[k]])

\* draws: speed_factor (tenths, uniform(0.1, 2.5)), duration_min (minutes,
\* uniform(5, 30)), u_start for start_index.  The product is taken at the
\* resolution of the model (whole km/h).
_inject_abnormal_speed_anomaly(trajectory, speed_factor, duration_min, u_start) ==
    IF ~_validate_trajectory(trajectory) \/ Len(trajectory) < 3 THEN trajectory
    ELSE
      LET n == Len(trajectory)
          start_index == RandInt(0, n \div 2, u_start)
          end_index == Min(start_index + duration_min \div 5, n - 1)
      IN  AsList([k \in 1..n |->
             IF start_index <= k - 1 /\ k - 1 < end_index
             THEN [trajectory[k] EXCEPT
                     !.vitesse = Max(0, Min(150, (@ * speed_factor) \div 10))]
             ELSE trajectory[k]])

\* an injection whose early points start at the start of the mission
_inject_out_of_hours_anomaly_from_start(trajectory, early_start, late_end, early_speed, late_speed) ==
    IF ~_validate_trajectory(trajectory) \/ Len(trajectory) < 2 THEN trajectory
    ELSE
      LET first == trajectory[1]
          last == trajectory[Len(trajectory)]
          num_early_points == Max(2, early_start \div 10)
          num_late_points == Max(2, late_end \div 10)
          early_point(i) ==
              TrajectPoint(NoneId, first.mission_id, first.mission_start + i * 10,
                  first.latitude, first.longitude, early_speed,
                  first.mission_start, first.mission_end)
          late_point(i) ==
              TrajectPoint(NoneId, last.mission_id, last.mission_end + i * 10,
                  last.latitude, last.longitude, late_speed,
                  last.mission_start, last.mission_end)
      IN  [k \in 1..num_early_points |-> early_point(num_early_points - k)]
              \o trajectory
              \o [k \in 1..num_late_points |-> late_point(k - 1)]

\* draws: early_start (minutes, 60 * uniform(1, 3)), late_end (minutes,
\* 60 * uniform(1, 4)), the speeds uniform(10, 30) and uniform(10, 25); the
\* position jitters drawn are 0
_inject_out_of_hours_anomaly(trajectory, early_start, late_end, early_speed, late_speed) ==
    IF ~_validate_trajectory(trajectory) \/ Len(trajectory) < 2 THEN trajectory
    ELSE
      LET first == trajectory[1]
          last == trajectory[Len(trajectory)]
          early_start_time == first.mission_start - early_start
          num_early_points == Max(2, early_start \div 10)
          num_late_points == Max(2, late_end \div 10)
          \* each early point is inserted at position 0: the list starts with
          \* the early point drawn last
          early_point(i) ==
              TrajectPoint(NoneId, first.mission_id, early_start_time + i * 10,
                  first.latitude, first.longitude, early_speed,
                  first.mission_start, first.mission_end)
          late_point(i) ==
              TrajectPoint(NoneId, last.mission_id, last.mission_end + i * 10,
                  last.latitude, last.longitude, late_speed,
                  last.mission_start, last.mission_end)
      IN  [k \in 1..num_early_points |-> early_point(num_early_points - k)]
              \o trajectory
              \o [k \in 1..num_late_points |-> late_point(k - 1)]

(***************************************************************************)
(* AnomalyInjectionService: configuration, persistence, injection          *)
(***************************************************************************)
RETOUR_PREMATURE == "retour_premature"
TRAJET_DIVERGENT == "trajet_divergent"
ARRET_NON_AUTORISE == "arret_non_autorise"
VITESSE_ANORMALE == "vitesse_anormale"
DEPLACEMENT_HORS_HEURES == "deplacement_hors_heures"
SORTIE_ZONE_AUTORISEE == "sortie_zone_autorisee"

TRAJECTORY_CONTAMINATED == "TRAJECTORY_CONTAMINATED"

\* probabilities in hundredths; anomaly_types in the order of the dict
_load_default_config ==
    [injection_probability |-> 100,
     anomaly_types |-> << [type |-> RETOUR_PREMATURE, probability |-> 15],
                          [type |-> TRAJET_DIVERGENT, probability |-> 25],
                          [type |-> ARRET_NON_AUTORISE, probability |-> 20],
                          [type |-> VITESSE_ANORMALE, probability |-> 30],
                          [type |-> DEPLACEMENT_HORS_HEURES, probability |-> 10] >>]

\* the subquery select(Anomalie.mission_id).where(type == 'TRAJECTORY_CONTAMINATED')
ContaminatedMissionIds(anomalies) ==
    {a.mission_id : a \in {b \in anomalies : b.type = TRAJECTORY_CONTAMINATED}}

\* a query that does not exclude the contaminated missions
get_clean_trajectories_unfiltered(trajets, anomalies, mission_id, db_ok) ==
    IF ~db_ok THEN <<>>
    ELSE
      LET results == OrderByTimestamp({t \in trajets : t.mission_id = mission_id})
      IN  AsList([k \in 1..Len(results) |->
             TrajectPoint(results[k].id, results[k].mission_id, results[k].timestamp,
                          results[k].latitude, results[k].longitude, results[k].vitesse,
                          MissionDateDebut(results[k].mission_id),
                          MissionDateFin(results[k].mission_id))])

\* db_ok = FALSE: the query raises and the function returns []
get_clean_trajectories(trajets, anomalies, mission_id, db_ok) ==
    IF ~db_ok THEN <<>>
    ELSE
      LET results == OrderByTimestamp(
                        {t \in trajets : /\ t.mission_id = mission_id
                                         /\ t.mission_id \notin ContaminatedMissionIds(anomalies)})
      IN  AsList([k \in 1..Len(results) |->
             TrajectPoint(results[k].id, results[k].mission_id, results[k].timestamp,
                          results[k].latitude, results[k].longitude, results[k].vitesse,
                          MissionDateDebut(results[k].mission_id),
                          MissionDateFin(results[k].mission_id))])

\* number of points without id among the first k points
NewBefore(trajectory, k) ==
    Cardinality({j \in 1..k : trajectory[j].id = NoneId})

\* the rows of Trajet after the commit of _save_contaminated_trajectory
_save_contaminated_trajectory(trajets, anomalies, trajet_seq, trajectory) ==
    LET mission_id == trajectory[1].mission_id
        kept == IF mission_id \in ContaminatedMissionIds(anomalies)
                THEN {t \in trajets : t.mission_id # mission_id}
                ELSE trajets
        News == {k \in 1..Len(trajectory) : trajectory[k].id = NoneId}
        Update(t) ==
            IF \E k \in 1..Len(trajectory) : trajectory[k].id = t.id
            THEN LET k == CHOOSE j \in 1..Len(trajectory) :
                              /\ trajectory[j].id = t.id
                              /\ \A i \in (j + 1)..Len(trajectory) : trajectory[i].id # t.id
                 IN  [t EXCEPT !.timestamp = trajectory[k].timestamp,
                               !.latitude = trajectory[k].latitude,
                               !.longitude = trajectory[k].longitude,
                               !.vitesse = trajectory[k].vitesse]
            ELSE t
    IN  {Update(t) : t \in kept}
            \cup {TrajetRow(trajet_seq + NewBefore(trajectory, k), trajectory[k]) : k \in News}

\* ', '.join(anomaly_types) behind the fixed prefix, as a list of tokens
RECURSIVE Join(_, _)
Join(sep, list) ==
    IF list = <<>> THEN <<>>
    ELSE IF Len(list) = 1 THEN list
    ELSE <<Head(list), sep>> \o Join(sep, Tail(list))

ContaminationDescription(anomaly_types) ==
    <<"Trajectoire contaminee avec anomalies: ">> \o Join(", ", anomaly_types)

\* a marking that adds one record per injected kind
_mark_mission_as_contaminated_per_kind(anomalies, anomalie_seq, mission_id, anomaly_types) ==
    {a \in anomalies : ~(a.mission_id = mission_id /\ a.type = TRAJECTORY_CONTAMINATED)}
        \cup {[id |-> anomalie_seq + k, mission_id |-> mission_id,
               type |-> TRAJECTORY_CONTAMINATED,
               description |-> ContaminationDescription(<<anomaly_types[k]>>)] :
               k \in 1..Len(anomaly_types)}

\* the rows of Anomalie after the commit of _mark_mission_as_contaminated
_mark_mission_as_contaminated(anomalies, anomalie_seq, mission_id, anomaly_types) ==
    {a \in anomalies : ~(a.mission_id = mission_id /\ a.type = TRAJECTORY_CONTAMINATED)}
        \cup {[id |-> anomalie_seq + 1, mission_id |-> mission_id,
               type |-> TRAJECTORY_CONTAMINATED,
               description |-> ContaminationDescription(anomaly_types)]}

\* the if / elif chain of inject_anomalies_for_mission: a type that matches
\* no branch leaves the trajectory as it is
ApplyTransform(type, trajectory, d) ==
    IF type = RETOUR_PREMATURE
    THEN _inject_early_return_anomaly(trajectory, d.early_ratio, d.return_speed)
    ELSE IF type = TRAJET_DIVERGENT
    THEN _inject_route_deviation_anomaly(trajectory, d.deviation_duration, d.u_start,
                                         d.lat_offset, d.deviation_speed)
    ELSE IF type = ARRET_NON_AUTORISE
    THEN _inject_unauthorized_stop_anomaly(trajectory, d.stop_duration, d.u_stops,
                                           d.stop_speed)
    ELSE IF type = VITESSE_ANORMALE
    THEN _inject_abnormal_speed_anomaly(trajectory, d.speed_factor, d.duration_min,
                                        d.u_start)
    ELSE IF type = DEPLACEMENT_HORS_HEURES
    THEN _inject_out_of_hours_anomaly(trajectory, d.early_start, d.late_end,
                                      d.early_speed, d.late_speed)
    ELSE trajectory

\* the loop over config.anomaly_types: d.kinds[k] is the draw random() (in
\* hundredths) against the probability of the k-th configured type
RECURSIVE InjectLoop(_, _, _, _, _)
InjectLoop(anomaly_types, k, modified_trajectory, injected_anomalies, d) ==
    IF k > Len(anomaly_types)
    THEN [modified_trajectory |-> modified_trajectory,
          injected_anomalies |-> injected_anomalies]
    ELSE IF d.kinds[k] <= anomaly_types[k].probability
    THEN InjectLoop(anomaly_types, k + 1,
                    ApplyTransform(anomaly_types[k].type, modified_trajectory, d),
                    Append(injected_anomalies, anomaly_types[k].type), d)
    ELSE InjectLoop(anomaly_types, k + 1, modified_trajectory, injected_anomalies, d)

AnomalyInjectionResult(mission_id, success, anomalies_injected, original_points_count, modified_points_count) ==
    [mission_id |-> mission_id, success |-> success,
     anomalies_injected |-> anomalies_injected,
     original_points_count |-> original_points_count,
     modified_points_count |-> modified_points_count]

\* the validator of AnomalyInjectionResult.modified_points_count
ResultIsValid(original_points_count, modified_points_count) ==
    modified_points_count >= original_points_count

InjectionFailed(mission_id) == AnomalyInjectionResult(mission_id, FALSE, <<>>, 0, 0)

\* what a call hands back: the database it leaves, the returned result and its
\* locals modified_trajectory and injected_anomalies
Outcome(db, result, modified_trajectory, injected_anomalies) ==
    [db |-> db, result |-> result, modified_trajectory |-> modified_trajectory,
     injected_anomalies |-> injected_anomalies]

\* the database after _save_contaminated_trajectory has committed
Saved(db, modified_trajectory) ==
    [db EXCEPT !.Trajet = _save_contaminated_trajectory(db.Trajet, db.Anomalie,
                              db.trajet_seq, modified_trajectory),
               !.trajet_seq = @ + NewBefore(modified_trajectory,
                                            Len(modified_trajectory))]

\* the database after _mark_mission_as_contaminated has committed
Marked(db, saved, mission_id, injected_anomalies) ==
    [saved EXCEPT !.Anomalie = _mark_mission_as_contaminated(db.Anomalie,
                                   db.anomalie_seq, mission_id, injected_anomalies),
                  !.anomalie_seq = @ + 1]

\* the tail of inject_anomalies_for_mission: save and mark when something was
\* injected, then build the result
SaveAndMark(db, mission_id, fault, original_count, modified_trajectory, injected_anomalies) ==
    IF injected_anomalies # <<>> /\ fault = "save"
    THEN Outcome(db, InjectionFailed(mission_id), modified_trajectory,
                 injected_anomalies)
    ELSE IF injected_anomalies # <<>> /\ fault = "mark"
    THEN Outcome(Saved(db, modified_trajectory), InjectionFailed(mission_id),
                 modified_trajectory, injected_anomalies)
    ELSE Outcome(IF injected_anomalies = <<>> THEN db
                 ELSE Marked(db, Saved(db, modified_trajectory), mission_id,
                             injected_anomalies),
                 IF ResultIsValid(original_count, Len(modified_trajectory))
                 THEN AnomalyInjectionResult(mission_id, TRUE, injected_anomalies,
                          original_count, Len(modified_trajectory))
                 ELSE InjectionFailed(mission_id),
                 modified_trajectory, injected_anomalies)

\* a body that goes on to the loop whatever the draw against
\* injection_probability
InjectInto_ungated(db, config, mission_id, d, fault, trajectory, loop) ==
    IF trajectory = <<>>
    THEN Outcome(db, InjectionFailed(mission_id), <<>>, <<>>)
    ELSE SaveAndMark(db, mission_id, fault, Len(trajectory),
                     loop.modified_trajectory, loop.injected_anomalies)

\* the body of inject_anomalies_for_mission once the trajectory is read
InjectInto(db, config, mission_id, d, fault, trajectory, loop) ==
    IF trajectory = <<>>
    THEN Outcome(db, InjectionFailed(mission_id), <<>>, <<>>)
    ELSE IF d.gate > config.injection_probability
    THEN Outcome(db, AnomalyInjectionResult(mission_id, TRUE, <<>>,
                                            Len(trajectory), Len(trajectory)),
                 trajectory, <<>>)
    ELSE SaveAndMark(db, mission_id, fault, Len(trajectory),
                     loop.modified_trajectory, loop.injected_anomalies)

\* the loop of inject_anomalies_for_mission over the trajectory it has read
InjectRead(db, config, mission_id, d, fault, trajectory) ==
    InjectInto(db, config, mission_id, d, fault, trajectory,
               InjectLoop(config.anomaly_types, 1, trajectory, <<>>, d))

\* db = [Trajet, Anomalie, trajet_seq, anomalie_seq]; d = the random draws
\* (d.gate is the draw against injection_probability, in hundredths);
\* fault names the database call that raises: "none", "read" (the query of
\* get_clean_trajectories), "save" (_save_contaminated_trajectory) or "mark"
\* (_mark_mission_as_contaminated).
inject_anomalies_for_mission(db, config, mission_id, d, fault) ==
    InjectRead(db, config, mission_id, d, fault,
               get_clean_trajectories(db.Trajet, db.Anomalie, mission_id,
                                      fault # "read"))

(***************************************************************************)
(* AnomalyDetectionService.  Smoothed values are carried multiplied by     *)
(* Scale, the common denominator of the Savitzky-Golay coefficients        *)
(* (window 5, degree 2), so that they stay integers.  Distances are        *)
(* differences of latitude (all points lie on one meridian).               *)
(***************************************************************************)
Scale == 35

\* rows of the projection on polynomials of degree 2 over a window of 5:
\* row 3 is the filter, rows 1, 2, 4, 5 evaluate the fitted polynomial at the
\* two first and two last positions (savgol_filter, mode 'interp')
SavGolCoefficients ==
    << <<31, 9, -3, -5, 3>>,
       <<9, 13, 12, 6, -5>>,
       <<-3, 12, 17, 12, -3>>,
       <<-5, 6, 12, 13, 9>>,
       <<3, -5, -3, 9, 31>> >>

\* Scale * savgol_filter(y, 5, 2)[k], Len(y) >= 5
savgol_filter(y, k) ==
    LET n == Len(y)
        first == IF k <= 2 THEN 1 ELSE IF k >= n - 1 THEN n - 4 ELSE k - 2
        row == IF k <= 2 THEN k ELSE IF k >= n - 1 THEN 5 - (n - k) ELSE 3
    IN  SumSeq([j \in 1..5 |-> SavGolCoefficients[row][j] * y[first + j - 1]])

\* the Field constraints of TrajectPoint on a smoothed point (values * Scale)
SmoothedPointIsValid(p) ==
    /\ -90000 * Scale <= p.latitude /\ p.latitude <= 90000 * Scale
    /\ -180000 * Scale <= p.longitude /\ p.longitude <= 180000 * Scale
    /\ 0 <= p.vitesse /\ p.vitesse <= 200 * Scale

\* the points with latitude, longitude and vitesse multiplied by Scale:
\* smoothed when there are at least 5 points and every smoothed point is a
\* valid TrajectPoint (otherwise the constructor raises and the points are
\* returned as they are)
_smooth_trajectory(points) ==
    LET raw == AsList([k \in 1..Len(points) |->
                  [points[k] EXCEPT !.latitude = Scale * @, !.longitude = Scale * @,
                                    !.vitesse = Scale * @]])
        latitudes == AsList([k \in 1..Len(points) |-> points[k].latitude])
        longitudes == AsList([k \in 1..Len(points) |-> points[k].longitude])
        speeds == AsList([k \in 1..Len(points) |-> points[k].vitesse])
        smoothed == AsList([k \in 1..Len(points) |->
                       [points[k] EXCEPT !.latitude = savgol_filter(latitudes, k),
                                         !.longitude = savgol_filter(longitudes, k),
                                         !.vitesse = savgol_filter(speeds, k)]])
    IN  IF Len(points) < 5 THEN raw
        ELSE IF \A k \in 1..Len(points) : SmoothedPointIsValid(smoothed[k])
        THEN smoothed
        ELSE raw

\* _calculate_distance on one meridian, in units of the latitude
_calculate_distance(lat1, lat2) == Abs(lat2 - lat1)

Hour(timestamp) == (timestamp \div 60) % 24

IsNight(timestamp) == Hour(timestamp) < 6 \/ Hour(timestamp) > 22

MaxOf(s) == CHOOSE x \in {s[k] : k \in 1..Len(s)} : \A k \in 1..Len(s) : s[k] <= x

\* the features read by the rule layer and by the labelling of the training
\* data.  total_distance, max_speed and speeds are multiplied by Scale;
\* direct_distance is not (it is taken on the points as given).  speeds stands
\* for the statistics np.var(speeds) is taken from, anomaly_indicators for the
\* keys of the dict of that name.  trajectory is not empty.
extract_trajectory_features(trajectory) ==
    LET smooth_trajectory == _smooth_trajectory(trajectory)
        n == Len(trajectory)
        speeds == AsList([k \in 1..n |-> smooth_trajectory[k].vitesse])
    IN  [mission_id |-> trajectory[1].mission_id,
         total_distance |->
             SumSeq([k \in 1..(n - 1) |->
                 _calculate_distance(smooth_trajectory[k].latitude,
                                     smooth_trajectory[k + 1].latitude)]),
         direct_distance |->
             _calculate_distance(trajectory[1].latitude, trajectory[n].latitude),
         max_speed |-> MaxOf(speeds),
         stop_count |-> Cardinality({k \in 1..n : speeds[k] < 5 * Scale}),
         night_points |-> Cardinality({k \in 1..n : IsNight(trajectory[k].timestamp)}),
         speed_violations |-> Cardinality({k \in 1..n : speeds[k] > 120 * Scale}),
         total_duration |-> trajectory[n].timestamp - trajectory[1].timestamp,
         speeds |-> speeds,
         anomaly_indicators |-> {"speed_inconsistency", "route_inefficiency",
                                 "excessive_stops", "erratic_movement",
                                 "acceleration_anomaly"}]

\* path_efficiency < tenths / 10, where path_efficiency = direct_distance /
\* total_distance if total_distance > 0 else 0
PathEfficiencyBelow(features, tenths) ==
    IF features.total_distance > 0
    THEN 10 * Scale * features.direct_distance < tenths * features.total_distance
    ELSE 0 < tenths

\* path_efficiency > tenths / 10
PathEfficiencyAbove(features, tenths) ==
    /\ features.total_distance > 0
    /\ 10 * Scale * features.direct_distance > tenths * features.total_distance

\* np.var(speeds) > limit for the speeds of the features (multiplied by
\* Scale): the variance of n values is the sum of the squares of the
\* differences of every two of them, divided by n^2
SpeedVarianceAbove(features, limit) ==
    LET n == Len(features.speeds)
        squares == AsList([k \in 1..(n * n) |->
                      LET i == ((k - 1) \div n) + 1
                          j == ((k - 1) % n) + 1
                      IN  IF i < j
                          THEN (features.speeds[i] - features.speeds[j])
                                  * (features.speeds[i] - features.speeds[j])
                          ELSE 0])
    IN  SumSeq(squares) > limit * n * n * Scale * Scale

\* the label of a sample of the training data
_is_anomaly_by_rules(features) ==
    LET n == Len(features.speeds)
        anomaly_indicators ==
            (IF SpeedVarianceAbove(features, 500) THEN 1 ELSE 0)
            + (IF PathEfficiencyBelow(features, 3) THEN 1 ELSE 0)
            + (IF 2 * features.night_points > n THEN 1 ELSE 0)
            + (IF features.speed_violations > 10 THEN 1 ELSE 0)
            + (IF 10 * features.stop_count > 3 * Cardinality(features.anomaly_indicators)
               THEN 1 ELSE 0)
    IN  anomaly_indicators >= 2

AnomalyScore(anomaly_type, severity) ==
    [anomaly_type |-> anomaly_type, severity |-> severity]

_detect_rule_based_anomalies(features, trajectory) ==
    (IF features.max_speed > 150 * Scale
     THEN <<AnomalyScore("EXCESSIVE_SPEED",
                IF features.max_speed > 180 * Scale THEN "CRITICAL" ELSE "HIGH")>>
     ELSE <<>>)
    \o (IF PathEfficiencyBelow(features, 3)
        THEN <<AnomalyScore("ROUTE_INEFFICIENCY",
                   IF PathEfficiencyAbove(features, 1) THEN "MEDIUM" ELSE "HIGH")>>
        ELSE <<>>)
    \o (IF 10 * features.night_points > 6 * Len(trajectory)
        THEN <<AnomalyScore("EXCESSIVE_NIGHT_TRAVEL", "MEDIUM")>>
        ELSE <<>>)
    \o (IF 10 * features.stop_count > 4 * Len(trajectory)
        THEN <<AnomalyScore("EXCESSIVE_STOPS", "MEDIUM")>>
        ELSE <<>>)

\* x > mean(values) + k * std(values), written without division or root:
\* with n = len, S = sum, Q = sum of squares, n * x - S > k * sqrt(n * Q - S^2)
AboveMeanPlusStd(x, values, k) ==
    LET n == Len(values)
        S == SumSeq(values)
        Q == SumSeq(AsList([j \in 1..n |-> values[j] * values[j]]))
    IN  /\ n * x - S > 0
        /\ (n * x - S) * (n * x - S) > k * k * (n * Q - S * S)

\* a count of the changes that exceed their mean
_analyze_speed_patterns_above_mean(speeds) ==
    LET speed_changes == AsList([i \in 1..(Len(speeds) - 1) |->
                                    Abs(speeds[i + 1] - speeds[i])])
    IN  [abnormal_changes |->
             Cardinality({i \in 1..Len(speed_changes) :
                             AboveMeanPlusStd(speed_changes[i], speed_changes, 0)}),
         changes |-> Len(speed_changes)]

\* the number of abnormal changes and the number of changes of
\* _analyze_speed_patterns (the score is their quotient), Len(speeds) >= 3
_analyze_speed_patterns(speeds) ==
    LET speed_changes == AsList([i \in 1..(Len(speeds) - 1) |->
                                    Abs(speeds[i + 1] - speeds[i])])
    IN  [abnormal_changes |->
             Cardinality({i \in 1..Len(speed_changes) :
                             AboveMeanPlusStd(speed_changes[i], speed_changes, 2)}),
         changes |-> Len(speed_changes)]

\* min(std / mean, 1.0) > 0.6 for the distances between consecutive points
\* (0.0 when their mean is 0), Len(trajectory) >= 4
MovementScoreAboveThreshold(trajectory) ==
    LET distances == AsList([i \in 1..(Len(trajectory) - 1) |->
                        _calculate_distance(trajectory[i].latitude,
                                            trajectory[i + 1].latitude)])
        n == Len(distances)
        S == SumSeq(distances)
        Q == SumSeq(AsList([j \in 1..n |-> distances[j] * distances[j]]))
    IN  /\ n > 2
        /\ S > 0
        /\ 25 * (n * Q - S * S) > 9 * S * S

\* fault: an exception raised inside the try block of the layer
_detect_pattern_anomalies(trajectory, fault) ==
    IF Len(trajectory) < 5 THEN <<>>
    ELSE IF fault THEN <<>>
    ELSE
      LET speed_pattern == _analyze_speed_patterns(
                              AsList([k \in 1..Len(trajectory) |->
                                         trajectory[k].vitesse]))
      IN  (IF 10 * speed_pattern.abnormal_changes > 7 * speed_pattern.changes
           THEN <<AnomalyScore("ABNORMAL_SPEED_PATTERN", "MEDIUM")>>
           ELSE <<>>)
          \o (IF MovementScoreAboveThreshold(trajectory)
              THEN <<AnomalyScore("ABNORMAL_MOVEMENT_PATTERN", "MEDIUM")>>
              ELSE <<>>)

\* fault: an exception raised inside the try block of the layer
_detect_temporal_anomalies(trajectory, fault) ==
    IF Len(trajectory) < 2 THEN <<>>
    ELSE IF fault THEN <<>>
    ELSE
      LET time_intervals == AsList([i \in 1..(Len(trajectory) - 1) |->
                                trajectory[i + 1].timestamp - trajectory[i].timestamp])
          gaps == AsList([i \in 1..Len(time_intervals) |->
                      IF /\ AboveMeanPlusStd(time_intervals[i], time_intervals, 3)
                         /\ time_intervals[i] > 60
                      THEN <<AnomalyScore("TEMPORAL_GAP",
                                IF time_intervals[i] > 120 THEN "HIGH" ELSE "MEDIUM")>>
                      ELSE <<>>])
          night_points == Cardinality({k \in 1..Len(trajectory) :
                                          IsNight(trajectory[k].timestamp)})
      IN  FlattenSeq(gaps)
          \o (IF 10 * night_points > 7 * Len(trajectory)
              THEN <<AnomalyScore("OUT_OF_HOURS_MOVEMENT", "MEDIUM")>>
              ELSE <<>>)

\* the model layer.  model_fitted: IsolationForest.fit has run on the model
\* object (decision_function of a model that was never fitted raises
\* NotFittedError).  verdict is what the fitted model answers for the feature
\* vector: "inlier", or "outlier_medium" / "outlier_high" (|isolation_score|
\* > 0.5).  fault: another exception raised by the model object.
IsolationForestLayer(model_fitted, verdict, fault) ==
    IF ~model_fitted \/ fault THEN [raised |-> TRUE, scores |-> <<>>]
    ELSE [raised |-> FALSE,
          scores |-> IF verdict = "outlier_high"
                     THEN <<AnomalyScore("ISOLATION_FOREST_ANOMALY", "HIGH")>>
                     ELSE IF verdict = "outlier_medium"
                     THEN <<AnomalyScore("ISOLATION_FOREST_ANOMALY", "MEDIUM")>>
                     ELSE <<>>]

\* A detector that records what it finds in the table Anomalie.
detect_anomalies_persisting(db, trajectory, detector, verdict, fault) ==
    IF trajectory = <<>> THEN [db |-> db, scores |-> <<>>]
    ELSE
      LET features == extract_trajectory_features(trajectory)
          scores == _detect_rule_based_anomalies(features, trajectory)
                       \o _detect_pattern_anomalies(trajectory, fault = "pattern")
                       \o _detect_temporal_anomalies(trajectory, fault = "temporal")
      IN  [db |-> [db EXCEPT !.Anomalie = @ \cup
                        {[id |-> db.anomalie_seq + k, mission_id |-> features.mission_id,
                          type |-> scores[k].anomaly_type,
                          description |-> scores[k].severity] : k \in 1..Len(scores)},
                      !.anomalie_seq = @ + Len(scores)],
           scores |-> scores]

\* db = [Trajet, Anomalie, trajet_seq, anomalie_seq], the database behind
\* self.db; detector = [scaler_fitted, model_fitted]; fault is "none" or the
\* layer in which an exception is raised ("model", "rule", "pattern",
\* "temporal").  The pattern and the temporal layer have a handler of their
\* own; an exception of the model or the rule layer reaches the outer handler,
\* which makes the call return [].
\* The value is the database after the call and the returned scores.
detect_anomalies(db, trajectory, detector, verdict, fault) ==
    IF trajectory = <<>> THEN [db |-> db, scores |-> <<>>]
    ELSE
      LET features == extract_trajectory_features(trajectory)
          model_layer == IsolationForestLayer(detector.model_fitted, verdict,
                                              fault = "model")
      IN  IF model_layer.raised \/ fault = "rule" THEN [db |-> db, scores |-> <<>>]
          ELSE [db |-> db,
                scores |-> model_layer.scores
                   \o _detect_rule_based_anomalies(features, trajectory)
                   \o _detect_pattern_anomalies(trajectory, fault = "pattern")
                   \o _detect_temporal_anomalies(trajectory, fault = "temporal")]

(***************************************************************************)
(* State                                                                   *)
(***************************************************************************)
VARIABLES
    iot_client,        \* generator_service.iot_client: "None" or "client"
    connected,         \* the client is between connect() and disconnect()
    running,           \* AnomalySimulationOrchestrator.running
    Trajet,            \* rows of the table Trajet
    Anomalie,          \* rows of the table Anomalie
    trajet_seq,        \* auto-increment counter of Trajet.id
    anomalie_seq,      \* auto-increment counter of Anomalie.id
    detector,          \* [scaler_fitted, model_fitted] of the detection service
    config,            \* injector_service.config of the orchestrator's injector
    pc,                \* per task: the await at which the task is suspended
    missions,          \* per task: the list returned by get_active_missions
    idx,               \* per task: position of the current mission in missions
    final_trajectory,  \* per task: final_trajectory_for_detection
    point_k,           \* per task: number of points handed to send_message
    bracket,           \* per task: the pass in progress has connected the client
    passes,            \* number of passes started
    generations,       \* number of trajectories generated and saved
    lastMsg,           \* the message the latest step published, if it published one
    last_injection,    \* the latest direct call of inject_anomalies_for_mission
    last_detection,    \* the latest direct call of detect_anomalies
    last_error,        \* the exception raised in the latest step, if any
    input,             \* the arguments of the direct calls of a service
    calls,             \* number of direct calls of inject_anomalies_for_mission
    last_update,       \* the latest request PUT /anomalies/config, if any
    last_generation,   \* the latest direct call of generate_trajectory_points
    last_transform,    \* the latest direct call of a transform of the injector
    last_training      \* the latest call of train_models

vars == <<iot_client, connected, running, Trajet, Anomalie, trajet_seq, anomalie_seq,
          detector, config, pc, missions, idx, final_trajectory, point_k, bracket,
          passes, generations, lastMsg, last_injection, last_detection, last_error,
          input, calls, last_update, last_generation, last_transform, last_training>>

dbVars == <<Trajet, Anomalie, trajet_seq, anomalie_seq>>
channelVars == <<iot_client, connected>>
taskVars == <<running, pc, missions, idx, final_trajectory, point_k, bracket, passes,
              generations>>

DB == [Trajet |-> Trajet, Anomalie |-> Anomalie,
       trajet_seq |-> trajet_seq, anomalie_seq |-> anomalie_seq]

SetDB(db) ==
    /\ Trajet' = db.Trajet
    /\ Anomalie' = db.Anomalie
    /\ trajet_seq' = db.trajet_seq
    /\ anomalie_seq' = db.anomalie_seq

Tasks == {"periodic", "manual"}

NoCall == [called |-> FALSE]

\* the four states in which _initialize_models and _load_models can leave
\* the scaler and the outlier model (each file present or not)
DetectorStates == [scaler_fitted : BOOLEAN, model_fitted : BOOLEAN]

Verdicts == {"inlier", "outlier_medium", "outlier_high"}
DetectFaults == {"none", "model", "rule", "pattern", "temporal"}

(***************************************************************************)
(* Specification SpecDetect: detect_anomalies and train_models on          *)
(* trajectories drawn from a bounded family                                *)
(***************************************************************************)
MaxDetectLen == 7

SpeedProfiles == {"cruise", "motorway", "stopped", "late_start", "fast", "spike",
                  "alternating"}
LatitudeProfiles == {"still", "line", "zigzag", "jump"}
StartTimes == {720, 1380}

ProfileSpeed(profile, k, len) ==
    IF profile = "cruise" THEN 60
    ELSE IF profile = "motorway" THEN 115
    ELSE IF profile = "stopped" THEN 0
    ELSE IF profile = "late_start" THEN (IF k <= 2 THEN 0 ELSE 60)
    ELSE IF profile = "fast" THEN 190
    ELSE IF profile = "spike" THEN (IF k = (len + 1) \div 2 THEN 160 ELSE 60)
    ELSE (IF k % 2 = 1 THEN 0 ELSE 150)

ProfileLatitude(profile, k, len) ==
    IF profile = "still" THEN 33600
    ELSE IF profile = "line" THEN 33600 + 50 * (k - 1)
    ELSE IF profile = "zigzag" THEN 33600 + 50 * (k % 2)
    ELSE (IF k = len THEN 33900 ELSE 33600)

TestTrajectory(len, speeds, latitudes, start) ==
    AsList([k \in 1..len |->
        TrajectPoint(k, 1, start + 10 * (k - 1), ProfileLatitude(latitudes, k, len),
                     -7500, ProfileSpeed(speeds, k, len),
                     MissionDateDebut(1), MissionDateFin(1))])

InitDetect ==
    /\ iot_client = "None"
    /\ connected = FALSE
    /\ running = FALSE
    /\ \E len \in 0..MaxDetectLen, speeds \in SpeedProfiles,
          latitudes \in LatitudeProfiles, start \in StartTimes :
          input \in [trajectory : {TestTrajectory(len, speeds, latitudes, start)},
                     verdict : Verdicts, fault : DetectFaults]
    /\ Trajet = InsertRows(0, input.trajectory)
    /\ trajet_seq = Len(input.trajectory)
    /\ Anomalie \in {{}, {[id |-> 1, mission_id |-> 1, type |-> TRAJECTORY_CONTAMINATED,
                          description |-> ContaminationDescription(<<VITESSE_ANORMALE>>)]}}
    /\ anomalie_seq = Cardinality(Anomalie)
    /\ detector \in DetectorStates
    /\ config = _load_default_config
    /\ pc = [t \in Tasks |-> "idle"]
    /\ missions = [t \in Tasks |-> <<>>]
    /\ idx = [t \in Tasks |-> 0]
    /\ final_trajectory = [t \in Tasks |-> <<>>]
    /\ point_k = [t \in Tasks |-> 0]
    /\ bracket = [t \in Tasks |-> FALSE]
    /\ last_update = NoCall
    /\ last_generation = NoCall
    /\ last_transform = NoCall
    /\ last_training = NoCall
    /\ passes = 0
    /\ generations = 0
    /\ lastMsg = NoCall
    /\ last_injection = NoCall
    /\ last_detection = NoCall
    /\ last_error = NoCall
    /\ calls = 0

\* train_models with training data: the samples are labelled (a stored
\* trajectory of fewer than 5 points is no sample), the scaler is fitted,
\* then the outlier model; fit_ok = FALSE: IsolationForest.fit raises
TrainModels ==
    /\ \E fit_ok \in BOOLEAN :
          detector' = [scaler_fitted |-> TRUE,
                       model_fitted |-> detector.model_fitted \/ fit_ok]
    /\ last_detection' = NoCall
    /\ last_training' =
          IF Len(input.trajectory) < 5 THEN NoCall
          ELSE [called |-> TRUE, trajectory |-> input.trajectory,
                is_anomaly |-> _is_anomaly_by_rules(
                                  extract_trajectory_features(input.trajectory))]
    /\ UNCHANGED <<dbVars, channelVars, taskVars, config, lastMsg, last_injection,
                   last_error, input, calls, last_update, last_generation,
                   last_transform>>

\* one call of detect_anomalies
DetectCall ==
    /\ LET out == detect_anomalies(DB, input.trajectory, detector, input.verdict,
                                   input.fault)
       IN  /\ SetDB(out.db)
           /\ last_detection' = [called |-> TRUE, trajectory |-> input.trajectory,
                                 detector |-> detector, verdict |-> input.verdict,
                                 fault |-> input.fault, scores |-> out.scores]
    /\ UNCHANGED <<channelVars, taskVars, detector, config, lastMsg, last_injection,
                   last_error, input, calls, last_update, last_generation,
                   last_transform, last_training>>

NextDetect == TrainModels \/ DetectCall

SpecDetect == InitDetect /\ [][NextDetect]_vars

(***************************************************************************)
(* Claims on detect_anomalies (checked under SpecDetect)                   *)
(***************************************************************************)
RuleFindings(call) ==
    _detect_rule_based_anomalies(extract_trajectory_features(call.trajectory),
                                 call.trajectory)
PatternFindings(call) == _detect_pattern_anomalies(call.trajectory, FALSE)
TemporalFindings(call) == _detect_temporal_anomalies(call.trajectory, FALSE)
ModelFindings(call) == IsolationForestLayer(TRUE, call.verdict, FALSE).scores

\* C7: detect_anomalies never changes persisted state: across every call,
\* whatever the trajectory and the model state, the stored trajectory points
\* and the stored anomaly records (and the counters behind them) are the same
\* after the call as before it.
C7_DetectLeavesPersistedStateUnchanged ==
    [][last_detection' # last_detection => UNCHANGED dbVars]_vars

\* a call that found something while points and a sentinel record are stored
C7_Witness ==
    /\ last_detection.called
    /\ last_detection.scores # <<>>
    /\ Trajet # {}
    /\ Anomalie # {}

\* C8: when the scaler or the outlier model is untrained, absent or corrupted,
\* only the model layer is skipped: the result holds no
\* ISOLATION_FOREST_ANOMALY and is exactly the findings of the rule layer,
\* then of the pattern layer, then of the temporal layer.
C8_UntrainedModelSkipsOnlyModelLayer ==
    ( /\ last_detection.called
      /\ last_detection.trajectory # <<>>
      /\ last_detection.fault = "none"
      /\ ~(last_detection.detector.scaler_fitted
           /\ last_detection.detector.model_fitted) )
    => /\ \A k \in 1..Len(last_detection.scores) :
             last_detection.scores[k].anomaly_type # "ISOLATION_FOREST_ANOMALY"
       /\ last_detection.scores = RuleFindings(last_detection)
                                     \o PatternFindings(last_detection)
                                     \o TemporalFindings(last_detection)

\* C9: the four layers are independently fault-tolerant: when one of the
\* model, rule, pattern or temporal layers raises during a call (the model
\* being otherwise fitted), the findings of the three other layers are all in
\* the returned list.
C9_LayersIndependentlyFaultTolerant ==
    ( /\ last_detection.called
      /\ last_detection.trajectory # <<>>
      /\ last_detection.fault # "none"
      /\ last_detection.detector.model_fitted )
    => last_detection.scores =
          (IF last_detection.fault = "model" THEN <<>>
           ELSE ModelFindings(last_detection))
          \o (IF last_detection.fault = "rule" THEN <<>>
              ELSE RuleFindings(last_detection))
          \o (IF last_detection.fault = "pattern" THEN <<>>
              ELSE PatternFindings(last_detection))
          \o (IF last_detection.fault = "temporal" THEN <<>>
              ELSE TemporalFindings(last_detection))

\* C10: for an empty trajectory and for every trajectory of fewer than 5
\* points, detect_anomalies returns an empty list of scores, whatever the
\* model state.
C10_ShortTrajectoryYieldsNothing ==
    (last_detection.called /\ Len(last_detection.trajectory) < 5)
    => last_detection.scores = <<>>

\* the rule layer reports EXCESSIVE_SPEED for the trajectory of the call
ReportsExcessiveSpeed(call) ==
    \E k \in 1..Len(RuleFindings(call)) :
        RuleFindings(call)[k].anomaly_type = "EXCESSIVE_SPEED"

\* C21: the rule layer emits EXCESSIVE_SPEED for every trajectory that
\* contains at least one sample with speed above 150 km/h, and never for a
\* trajectory cruising at a constant 115 km/h.
C21_ExcessiveSpeedFlaggedExactly ==
    (last_detection.called /\ last_detection.trajectory # <<>>)
    => /\ (\E k \in 1..Len(last_detection.trajectory) :
              last_detection.trajectory[k].vitesse > 150)
          => ReportsExcessiveSpeed(last_detection)
       /\ (\A k \in 1..Len(last_detection.trajectory) :
              last_detection.trajectory[k].vitesse = 115)
          => ~ReportsExcessiveSpeed(last_detection)

\* the number of the five conditions of the labelling rule that hold for the
\* sample, the stops being counted against 0.3 x N
ConditionsHolding(trajectory) ==
    LET features == extract_trajectory_features(trajectory)
        N == Len(trajectory)
    IN  (IF SpeedVarianceAbove(features, 500) THEN 1 ELSE 0)
        + (IF PathEfficiencyBelow(features, 3) THEN 1 ELSE 0)
        + (IF 2 * features.night_points > N THEN 1 ELSE 0)
        + (IF features.speed_violations > 10 THEN 1 ELSE 0)
        + (IF 10 * features.stop_count > 3 * N THEN 1 ELSE 0)

\* C26: the training label of a trajectory with N points is 'anomalous'
\* exactly when at least 2 of these 5 conditions hold: speed_variance > 500,
\* path_efficiency < 0.3, night_ratio > 0.5, speed_violations > 10,
\* stop_count > 0.3 x N.
C26_LabelIsTwoOfFive ==
    last_training.called =>
        (last_training.is_anomaly <=> ConditionsHolding(last_training.trajectory) >= 2)

\* the speed-pattern score of the trajectory of the call, as the pattern
\* layer computes it
SpeedPattern(call) ==
    _analyze_speed_patterns(AsList([k \in 1..Len(call.trajectory) |->
                                       call.trajectory[k].vitesse]))

\* C30: for every trajectory, the speed-pattern score computed by the pattern
\* layer (the fraction of consecutive absolute speed deltas that exceed
\* mean + 2 x std of those deltas) is at most 0.2, so the pattern layer's
\* threshold of 0.7 is never exceeded and ABNORMAL_SPEED_PATTERN is never
\* emitted.
C30_SpeedPatternNeverFlagged ==
    last_detection.called =>
        /\ Len(last_detection.trajectory) >= 3
              => 5 * SpeedPattern(last_detection).abnormal_changes
                    <= SpeedPattern(last_detection).changes
        /\ \A k \in 1..Len(last_detection.scores) :
              last_detection.scores[k].anomaly_type # "ABNORMAL_SPEED_PATTERN"
        /\ \A k \in 1..Len(PatternFindings(last_detection)) :
              PatternFindings(last_detection)[k].anomaly_type # "ABNORMAL_SPEED_PATTERN"

\* the pattern layer ran on a trajectory one of whose speed changes exceeds
\* mean + 2 x std, and the call returned its findings
C30_Witness ==
    /\ last_detection.called
    /\ Len(last_detection.trajectory) >= 5
    /\ last_detection.fault = "none"
    /\ last_detection.detector.model_fitted
    /\ SpeedPattern(last_detection).abnormal_changes > 0

(***************************************************************************)
(* Specification Spec: the passes of run_full_simulation_cycle.  A task    *)
(* is suspended only at an await that yields (connect, send_message,       *)
(* sleep, disconnect); the code between two such awaits runs as one step.  *)
(***************************************************************************)
Statuses == {"GENERATION_FAILED", "TRAJECTORY_GENERATED", "ANOMALY_INJECTED",
             "NO_ANOMALY_INJECTED", "NO_TRAJECTORY_FOR_DETECTION", "ANOMALY_DETECTED",
             "NO_ANOMALY_DETECTED", "TRAJECTORY_SENT_TO_IOT_HUB"}

\* the draws of one call of inject_anomalies_for_mission
KindDraws == {<<99, 99, 99, 99, 99>>, <<5, 99, 99, 99, 99>>, <<99, 5, 99, 99, 99>>,
              <<99, 99, 5, 99, 99>>, <<99, 99, 99, 5, 99>>, <<99, 99, 99, 99, 5>>,
              <<5, 5, 5, 5, 5>>}

Draws == [gate : {50}, kinds : KindDraws, early_ratio : {30, 70}, return_speed : {40},
          deviation_duration : {30}, u_start : {50}, lat_offset : {40},
          deviation_speed : {30}, stop_duration : {30}, u_stops : {<<50>>},
          stop_speed : {1}, speed_factor : {25}, duration_min : {20},
          early_start : {60}, late_end : {60}, early_speed : {20}, late_speed : {15}]

\* the draws of the injection step of a pass
PassDraws == {d \in Draws : /\ d.early_ratio = 30
                            /\ d.kinds \in {<<99, 99, 99, 99, 99>>, <<5, 5, 5, 5, 5>>}}

InjectFaults == {"none", "read", "save", "mark"}

\* the draws of one call of generate_trajectory_points
GenDraws == [start_city : {1}, end_city : {2}, waypoint_variation : {0},
             num_points : MinNumPoints..MaxNumPoints, initial_speed : {45},
             terrain_type : {"urban"}, speed_variation : {5}, stop_every : {7},
             lat_variation : {0}, lon_variation : {0}]

\* the locals of the pass of task t together with what its step writes
Local(t) ==
    [db |-> DB, pc |-> pc[t], missions |-> missions[t], idx |-> idx[t],
     final_trajectory |-> final_trajectory[t], point_k |-> point_k[t],
     bracket |-> bracket[t],
     generations |-> generations,
     last_error |-> NoCall]

Commit(t, s) ==
    /\ s.generations <= MaxGenerations
    /\ generations' = s.generations
    /\ SetDB(s.db)
    /\ pc' = [pc EXCEPT ![t] = s.pc]
    /\ missions' = [missions EXCEPT ![t] = s.missions]
    /\ idx' = [idx EXCEPT ![t] = s.idx]
    /\ final_trajectory' = [final_trajectory EXCEPT ![t] = s.final_trajectory]
    /\ point_k' = [point_k EXCEPT ![t] = s.point_k]
    /\ bracket' = [bracket EXCEPT ![t] = s.bracket]
    /\ UNCHANGED <<last_injection, last_detection>>
    /\ last_error' = IF s.last_error.called
                     THEN [called |-> TRUE, task |-> t,
                           mission_id |-> s.last_error.mission_id,
                           stage |-> s.last_error.stage]
                     ELSE NoCall

Raised(mission_id, stage) ==
    [called |-> TRUE, mission_id |-> mission_id, stage |-> stage]

\* where the task is when its pass has returned: the periodic task awaits
\* asyncio.sleep(interval_seconds), the task of a manual run is over
AfterPass(t) == IF t = "periodic" THEN "sleeping" ELSE "idle"

\* the locals of a pass that has returned
Returned(t, s) ==
    [s EXCEPT !.pc = AfterPass(t), !.missions = <<>>, !.idx = 0,
              !.final_trajectory = <<>>, !.point_k = 0, !.bracket = FALSE]

\* a save that fails after its first INSERT and is not rolled back
StartMission_partial_save(s, i, g, fault) ==
    IF i > Len(s.missions) THEN [s EXCEPT !.pc = "disconnecting"]
    ELSE [s EXCEPT !.idx = i, !.pc = "GENERATION_FAILED",
                   !.db.Trajet = @ \cup {[id |-> s.db.trajet_seq + 1,
                                          mission_id |-> s.missions[i],
                                          timestamp |-> MissionDateDebut(s.missions[i]),
                                          latitude |-> 33500, longitude |-> -7500,
                                          vitesse |-> 45]},
                   !.db.trajet_seq = @ + 1]

\* a pass that records an anomaly when it finds no mission
StartMission_recording_empty_pass(s, i, g, fault) ==
    [s EXCEPT !.pc = "disconnecting",
              !.db.Anomalie = @ \cup {[id |-> s.db.anomalie_seq + 1, mission_id |-> 1,
                                       type |-> "NO_ACTIVE_MISSION",
                                       description |-> <<"Aucune mission active">>]},
              !.db.anomalie_seq = @ + 1]

\* lines 66-100: the head of the loop body for the i-th mission, up to the
\* first status it sends; past the last mission the loop ends and the finally
\* clause disconnects.  fault: "generate" (generation or conversion raises),
\* "save" (save_trajectory_points fails and returns False) or "none".
StartMission(s, i, g, fault) ==
    IF i > Len(s.missions) THEN [s EXCEPT !.pc = "disconnecting"]
    ELSE
      LET mission == Mission(s.missions[i])
          initial_points_for_processing ==
              generate_trajectory_points(mission, g)
      IN  IF fault = "generate"
          THEN [s EXCEPT !.idx = i, !.pc = "disconnecting",
                         !.last_error = Raised(mission.id, "generation")]
          ELSE IF fault = "save"
          THEN [s EXCEPT !.idx = i, !.pc = "GENERATION_FAILED",
                         !.last_error = Raised(mission.id, "persistence")]
          ELSE [s EXCEPT !.idx = i, !.pc = "TRAJECTORY_GENERATED",
                         !.generations = @ + 1,
                         !.db.Trajet = @ \cup InsertRows(s.db.trajet_seq,
                                                         initial_points_for_processing),
                         !.db.trajet_seq = @ + g.num_points]

\* the record of a call of inject_anomalies_for_mission that handed back out
CallRecord(db, cfg, mission_id, d, fault, out) ==
    [called |-> TRUE, mission_id |-> mission_id, before |-> db, after |-> out.db,
     config |-> cfg, d |-> d, fault |-> fault, result |-> out.result,
     modified_trajectory |-> out.modified_trajectory,
     injected_anomalies |-> out.injected_anomalies]

InjectionCall(db, cfg, mission_id, d, fault) ==
    CallRecord(db, cfg, mission_id, d, fault,
               inject_anomalies_for_mission(db, cfg, mission_id, d, fault))

\* a pass that reports the detection before the injection
AfterInjection_detection_first(s, mission_id, out) ==
    [s EXCEPT !.db = out.db, !.pc = "NO_ANOMALY_DETECTED"]

\* lines 106-111: the choice of the status from what the call handed back
AfterInjection(s, mission_id, out) ==
    [s EXCEPT !.db = out.db,
              !.pc = IF out.result.success /\ out.result.anomalies_injected # <<>>
                     THEN "ANOMALY_INJECTED" ELSE "NO_ANOMALY_INJECTED",
              !.last_error = IF out.result.success THEN NoCall
                             ELSE Raised(mission_id, "injection")]

\* lines 104-111: the injection step
InjectStep(s, cfg, d, fault) ==
    AfterInjection(s, s.missions[s.idx],
                   inject_anomalies_for_mission(s.db, cfg,
                                                s.missions[s.idx], d, fault))

\* the list the generator built in memory for the mission (lines 70-90)
ReadBack_in_memory(trajets, mission) ==
    generate_trajectory_points(mission, StoredDraw)

\* the rows of a mission as TrajectPoints, ordered by timestamp (lines 116-129);
\* rows of equal timestamp come in the order of their ids
ReadBack(trajets, mission) ==
    LET db_trajets == OrderByTimestamp({t \in trajets : t.mission_id = mission.id})
    IN  AsList([k \in 1..Len(db_trajets) |->
            TrajectPoint(db_trajets[k].id, db_trajets[k].mission_id,
                         db_trajets[k].timestamp, db_trajets[k].latitude,
                         db_trajets[k].longitude, db_trajets[k].vitesse,
                         mission.dateDebut, mission.dateFin)])

\* lines 116-146: the re-read, the detection and the choice of the status.
\* fault: "reread" (the query raises) or "none".
DetectStep(s, reread_fault, detector_state, verdict, fault) ==
    LET mission == Mission(s.missions[s.idx])
        final_trajectory_for_detection == ReadBack(s.db.Trajet, mission)
        out == detect_anomalies(s.db, final_trajectory_for_detection, detector_state,
                                verdict, fault)
    IN  IF reread_fault = "reread"
        THEN [s EXCEPT !.pc = "disconnecting",
                       !.last_error = Raised(mission.id, "re-read")]
        ELSE IF final_trajectory_for_detection = <<>>
        THEN [s EXCEPT !.pc = "NO_TRAJECTORY_FOR_DETECTION",
                       !.final_trajectory = <<>>]
        ELSE [s EXCEPT !.db = out.db,
                       !.pc = IF out.scores # <<>> THEN "ANOMALY_DETECTED"
                              ELSE "NO_ANOMALY_DETECTED",
                       !.final_trajectory = final_trajectory_for_detection,
                       !.last_error =
                           IF ~detector_state.model_fitted \/ fault # "none"
                           THEN Raised(mission.id, "detection") ELSE NoCall]

\* the await of send_message ends: the message is published (ok) or the call
\* raises.  On a client that is not connected the library either opens the
\* connection itself and publishes, or raises.  connected tells whether the
\* message went out between connect() and disconnect().
Publish(message, ok) ==
    /\ lastMsg' = IF ok THEN [called |-> TRUE, type |-> message.type,
                              connected |-> connected]
                  ELSE NoCall
    /\ UNCHANGED <<iot_client, connected>>

StatusMessage(t) ==
    [type |-> "mission_status", mission_id |-> missions[t][idx[t]], status |-> pc[t]]

\* lines 59-66: get_active_missions (an error inside it gives []), then the
\* first mission; own: this pass has connected the client
TryBlock(t, own) ==
    \E ms \in {[m \in MissionIds |-> m], <<>>}, g \in GenDraws,
       fault \in {"none", "generate", "save"} :
       Commit(t, StartMission([Local(t) EXCEPT !.missions = ms, !.bracket = own],
                              1, g, fault))

\* lines 53-60: the pass starts.  Without a client object the pass connects:
\* connect_to_iot_hub creates the client (created = FALSE: the creation raises,
\* the pass returns) and awaits connect().  With a client object the pass goes
\* straight to the try block.
EnterCycle(t) ==
    /\ passes < MaxPasses
    /\ passes' = passes + 1
    /\ lastMsg' = NoCall
    /\ IF iot_client = "None"
       THEN /\ \E created \in BOOLEAN :
                  IF created
                  THEN /\ iot_client' = "client"
                       /\ pc' = [pc EXCEPT ![t] = "connecting"]
                  ELSE /\ iot_client' = iot_client
                       /\ pc' = [pc EXCEPT ![t] = AfterPass(t)]
            /\ last_error' = NoCall
            /\ UNCHANGED <<last_injection, last_detection>>
            /\ UNCHANGED <<connected, dbVars, missions, idx, final_trajectory, point_k,
                           bracket, generations>>
       ELSE /\ TryBlock(t, FALSE)
            /\ UNCHANGED channelVars

\* start_monitoring is scheduled at startup
StartMonitoring ==
    /\ pc["periodic"] = "idle"
    /\ running' = TRUE
    /\ EnterCycle("periodic")
    /\ UNCHANGED <<detector, config, input, calls, last_update, last_generation,
                   last_transform, last_training>>

\* start_monitoring that does not test self.running
MonitorWake_ignoring_flag ==
    /\ pc["periodic"] = "sleeping"
    /\ EnterCycle("periodic")
    /\ UNCHANGED <<running, detector, config, input, calls, last_update, last_generation,
                   last_transform, last_training>>

\* asyncio.sleep(interval_seconds) ends: the loop tests self.running
MonitorWake ==
    /\ pc["periodic"] = "sleeping"
    /\ IF running
       THEN /\ EnterCycle("periodic")
            /\ UNCHANGED running
       ELSE /\ pc' = [pc EXCEPT !["periodic"] = "stopped"]
            /\ lastMsg' = NoCall
            /\ last_error' = NoCall
            /\ UNCHANGED <<last_injection, last_detection>>
            /\ UNCHANGED <<running, passes, generations, channelVars, dbVars, missions, idx,
                           final_trajectory, point_k, bracket>>
    /\ UNCHANGED <<detector, config, input, calls, last_update, last_generation,
                   last_transform, last_training>>

\* POST /simulate/run creates a task that runs one pass
TriggerManual ==
    /\ pc["manual"] = "idle"
    /\ EnterCycle("manual")
    /\ UNCHANGED <<running, detector, config, input, calls, last_update, last_generation,
                   last_transform, last_training>>

\* stop()
Stop ==
    /\ running
    /\ running' = FALSE
    /\ lastMsg' = NoCall
    /\ last_error' = NoCall
    /\ UNCHANGED <<last_injection, last_detection, channelVars, dbVars, detector, config, pc, missions, idx,
                   final_trajectory, point_k, bracket, passes, generations, input, calls,
                   last_update, last_generation,
                   last_transform, last_training>>

\* lifespan, lines 86-88, at the stop of the application: stop() and
\* orchestrator_task.cancel().  CancelledError is raised at the await where the
\* periodic task is suspended; no except Exception clause catches it.
\*  - asyncio.sleep(interval_seconds): start_monitoring breaks out of its loop;
\*  - connect(): the error leaves connect_to_iot_hub and the pass, which is not
\*    yet in its try block; whether the client still connects is the library's;
\*  - an await of the try block: the finally clause awaits disconnect();
\*  - disconnect() of the finally clause: the call is abandoned and the pass is
\*    left; whether the client still disconnects is the library's.
Shutdown ==
    /\ pc["periodic"] \notin {"idle", "stopped", "cancelled"}
    /\ running' = FALSE
    /\ lastMsg' = NoCall
    /\ IF pc["periodic"] = "sleeping"
       THEN /\ Commit("periodic", [Local("periodic") EXCEPT !.pc = "stopped"])
            /\ UNCHANGED connected
       ELSE IF pc["periodic"] = "connecting"
       THEN /\ Commit("periodic", [Returned("periodic", Local("periodic"))
                                      EXCEPT !.pc = "stopped"])
            /\ connected' \in BOOLEAN
       ELSE IF pc["periodic"] = "disconnecting"
       THEN /\ Commit("periodic", [Returned("periodic", Local("periodic"))
                                      EXCEPT !.pc = "stopped"])
            /\ connected' \in {connected, FALSE}
       ELSE /\ Commit("periodic", [Local("periodic") EXCEPT !.pc = "cancelled",
                                                            !.final_trajectory = <<>>,
                                                            !.point_k = 0])
            /\ UNCHANGED connected
    /\ UNCHANGED <<iot_client, passes, detector, config, input, calls, last_update, last_generation,
                   last_transform, last_training>>

\* the await of connect() ends
ConnectDone(t) ==
    /\ pc[t] = "connecting"
    /\ lastMsg' = NoCall
    /\ \E ok \in BOOLEAN :
          IF ok
          THEN /\ connected' = TRUE
               /\ TryBlock(t, TRUE)
          ELSE /\ Commit(t, Returned(t, Local(t)))
               /\ UNCHANGED connected
    /\ UNCHANGED <<iot_client, running, passes, detector, config, input, calls, last_update, last_generation,
                   last_transform, last_training>>

\* TRAJECTORY_GENERATED was sent: the injection step
GeneratedSent(t) ==
    /\ pc[t] = "TRAJECTORY_GENERATED"
    /\ \E d \in PassDraws, fault \in {"none", "save"} :
          Commit(t, InjectStep(Local(t), config, d, fault))
    /\ \E ok \in BOOLEAN : Publish(StatusMessage(t), ok)
    /\ UNCHANGED <<running, passes, detector, config, input, calls, last_update, last_generation,
                   last_transform, last_training>>

\* ANOMALY_INJECTED / NO_ANOMALY_INJECTED was sent: re-read and detection
InjectedSent(t) ==
    /\ pc[t] \in {"ANOMALY_INJECTED", "NO_ANOMALY_INJECTED"}
    /\ \E reread_fault \in {"none", "reread"}, verdict \in {"inlier", "outlier_high"} :
          Commit(t, DetectStep(Local(t), reread_fault, detector, verdict, "none"))
    /\ \E ok \in BOOLEAN : Publish(StatusMessage(t), ok)
    /\ UNCHANGED <<running, passes, detector, config, input, calls, last_update, last_generation,
                   last_transform, last_training>>

\* ANOMALY_DETECTED / NO_ANOMALY_DETECTED was sent: send_to_iot_hub starts
DetectedSent(t) ==
    /\ pc[t] \in {"ANOMALY_DETECTED", "NO_ANOMALY_DETECTED"}
    /\ \E ok \in BOOLEAN : Publish(StatusMessage(t), ok)
    /\ Commit(t, [Local(t) EXCEPT !.pc = "points", !.point_k = 0])
    /\ UNCHANGED <<running, passes, detector, config, input, calls, last_update, last_generation,
                   last_transform, last_training>>

\* send_to_iot_hub: the send of one point (and the sleep behind it) ends; a
\* send that raises ends the loop.  When the loop ends its locals are gone and
\* the pass does not use final_trajectory_for_detection again.
PointSent(t) ==
    /\ pc[t] = "points"
    /\ \E ok \in BOOLEAN :
          LET k == point_k[t] + 1
              point == final_trajectory[t][k]
          IN  /\ Publish([type |-> "trajectory_point", mission_id |-> point.mission_id,
                          timestamp |-> point.timestamp, latitude |-> point.latitude,
                          vitesse |-> point.vitesse], ok)
              /\ Commit(t, IF ok /\ k < Len(final_trajectory[t])
                            THEN [Local(t) EXCEPT !.point_k = k]
                            ELSE [Local(t) EXCEPT !.point_k = 0,
                                                  !.final_trajectory = <<>>,
                                                  !.pc = "TRAJECTORY_SENT_TO_IOT_HUB"])
    /\ UNCHANGED <<running, passes, detector, config, input, calls, last_update, last_generation,
                   last_transform, last_training>>

\* a pass that a failed send of its status makes leave the loop
SentSent_aborting(t) ==
    /\ pc[t] = "TRAJECTORY_SENT_TO_IOT_HUB"
    /\ \E ok \in BOOLEAN :
          /\ Publish(StatusMessage(t), ok)
          /\ Commit(t, [Local(t) EXCEPT !.pc = IF ok THEN "sleep2" ELSE "disconnecting"])
    /\ UNCHANGED <<running, passes, detector, config, input, calls, last_update, last_generation,
                   last_transform, last_training>>

\* TRAJECTORY_SENT_TO_IOT_HUB was sent: asyncio.sleep(2)
SentSent(t) ==
    /\ pc[t] = "TRAJECTORY_SENT_TO_IOT_HUB"
    /\ \E ok \in BOOLEAN : Publish(StatusMessage(t), ok)
    /\ Commit(t, [Local(t) EXCEPT !.pc = "sleep2"])
    /\ UNCHANGED <<running, passes, detector, config, input, calls, last_update, last_generation,
                   last_transform, last_training>>

\* the loop goes on with the next mission: after continue (GENERATION_FAILED
\* or NO_TRAJECTORY_FOR_DETECTION was sent) ...
SkipSent(t) ==
    /\ pc[t] \in {"GENERATION_FAILED", "NO_TRAJECTORY_FOR_DETECTION"}
    /\ \E g \in GenDraws, fault \in {"none", "generate", "save"} :
          Commit(t, StartMission(Local(t), idx[t] + 1, g, fault))
    /\ \E ok \in BOOLEAN : Publish(StatusMessage(t), ok)
    /\ UNCHANGED <<running, passes, detector, config, input, calls, last_update, last_generation,
                   last_transform, last_training>>

\* ... or after asyncio.sleep(2)
Sleep2Done(t) ==
    /\ pc[t] = "sleep2"
    /\ lastMsg' = NoCall
    /\ \E g \in GenDraws, fault \in {"none", "generate", "save"} :
          Commit(t, StartMission(Local(t), idx[t] + 1, g, fault))
    /\ UNCHANGED <<channelVars, running, passes, detector, config, input, calls, last_update, last_generation,
                   last_transform, last_training>>

\* the finally clause: the await of disconnect() ends and the pass returns, or
\* the pending CancelledError goes on to start_monitoring, which breaks
DisconnectDone(t) ==
    /\ pc[t] \in {"disconnecting", "cancelled"}
    /\ connected' = FALSE
    /\ lastMsg' = NoCall
    /\ Commit(t, IF pc[t] = "cancelled"
                 THEN [Returned(t, Local(t)) EXCEPT !.pc = "stopped"]
                 ELSE Returned(t, Local(t)))
    /\ UNCHANGED <<iot_client, running, passes, detector, config, input, calls, last_update, last_generation,
                   last_transform, last_training>>

\* the rows an earlier run of the process has left for the last mission: one
\* generated trajectory, not contaminated
EarlierRows ==
    InsertRows(0, generate_trajectory_points(Mission(NumMissions), StoredDraw))

\* lifespan: the services are constructed, the models trained, the tables
\* hold what earlier runs have left
Init ==
    /\ iot_client = "None"
    /\ connected = FALSE
    /\ running = FALSE
    /\ Trajet \in {{}, EarlierRows}
    /\ Anomalie = {}
    /\ trajet_seq = Cardinality(Trajet)
    /\ anomalie_seq = 0
    /\ detector \in {[scaler_fitted |-> FALSE, model_fitted |-> FALSE],
                     [scaler_fitted |-> TRUE, model_fitted |-> TRUE]}
    /\ config = _load_default_config
    /\ pc = [t \in Tasks |-> "idle"]
    /\ missions = [t \in Tasks |-> <<>>]
    /\ idx = [t \in Tasks |-> 0]
    /\ final_trajectory = [t \in Tasks |-> <<>>]
    /\ point_k = [t \in Tasks |-> 0]
    /\ bracket = [t \in Tasks |-> FALSE]
    /\ last_update = NoCall
    /\ last_generation = NoCall
    /\ last_transform = NoCall
    /\ last_training = NoCall
    /\ passes = 0
    /\ generations = 0
    /\ lastMsg = NoCall
    /\ last_injection = NoCall
    /\ last_detection = NoCall
    /\ last_error = NoCall
    /\ calls = 0
    /\ input = NoCall

Next ==
    \/ StartMonitoring
    \/ MonitorWake
    \/ TriggerManual
    \/ Stop
    \/ Shutdown
    \/ \E t \in Tasks :
          \/ ConnectDone(t)
          \/ GeneratedSent(t)
          \/ InjectedSent(t)
          \/ DetectedSent(t)
          \/ PointSent(t)
          \/ SentSent(t)
          \/ SkipSent(t)
          \/ Sleep2Done(t)
          \/ DisconnectDone(t)

Spec == Init /\ [][Next]_vars

(***************************************************************************)
(* Claims on the passes (checked under Spec)                               *)
(***************************************************************************)

\* C1: every status or point message is published while the channel is
\* connected, that is after a successful connect and before the next
\* disconnect, in any sequence of passes, overlapping ones included.
C1_PublishedInsideBracket ==
    lastMsg.called => lastMsg.connected

\* C2: an exception raised while processing one mission is caught for that
\* mission only: the pass stays in its loop, about to publish a status for that
\* mission, and does not leave for the finally clause.
C2_ExceptionCaughtPerMission ==
    last_error.called =>
        /\ pc[last_error.task] \in Statuses
        /\ missions[last_error.task][idx[last_error.task]] = last_error.mission_id

\* the rows stored for a mission
StoredFor(mission_id) == {r \in Trajet : r.mission_id = mission_id}

\* trajectory is exactly the set of rows, each row once, by ascending timestamp
IsReadBackOf(trajectory, rows) ==
    /\ Len(trajectory) = Cardinality(rows)
    /\ \A r \in rows : \E k \in 1..Len(trajectory) :
          /\ trajectory[k].id = r.id
          /\ trajectory[k].mission_id = r.mission_id
          /\ trajectory[k].timestamp = r.timestamp
          /\ trajectory[k].latitude = r.latitude
          /\ trajectory[k].longitude = r.longitude
          /\ trajectory[k].vitesse = r.vitesse
    /\ \A k \in 1..(Len(trajectory) - 1) :
          trajectory[k].timestamp <= trajectory[k + 1].timestamp

\* the step of task t in which it calls detect_anomalies
DetectionStepOf(t) ==
    /\ pc[t] \in {"ANOMALY_INJECTED", "NO_ANOMALY_INJECTED"}
    /\ pc'[t] \in {"ANOMALY_DETECTED", "NO_ANOMALY_DETECTED"}

\* C4: in every pass the trajectory handed to the detector for a mission is
\* exactly the set of points stored for that mission at that moment, ordered by
\* timestamp, never the in-memory list the generator produced.
C4_DetectorSeesStoredPoints ==
    [][\A t \in Tasks :
          DetectionStepOf(t) =>
              IsReadBackOf(final_trajectory'[t], StoredFor(missions[t][idx[t]]))]_vars

\* a detection ran on a contaminated mission while rows of another mission are stored
C4_Witness ==
    \E t \in Tasks :
        /\ pc[t] \in {"ANOMALY_DETECTED", "NO_ANOMALY_DETECTED"}
        /\ final_trajectory[t] # <<>>
        /\ missions[t][idx[t]] \in ContaminatedMissionIds(Anomalie)
        /\ \E k \in 1..Len(final_trajectory[t]) : final_trajectory[t][k].id > MinNumPoints
        /\ \E r \in Trajet : r.mission_id # missions[t][idx[t]]

\* a step of the manually triggered pass
ManualPassStep ==
    <<pc["manual"], idx["manual"], point_k["manual"]>>'
        # <<pc["manual"], idx["manual"], point_k["manual"]>>

\* the periodic task is inside the try block of a pass
PeriodicInPass ==
    pc["periodic"] \notin {"idle", "connecting", "sleeping", "stopped", "cancelled"}

\* C11: a manually triggered pass does not affect the periodic loop: no step of
\* the manual pass changes the running flag or the position of the periodic
\* task, closes the publish channel under a periodic pass in progress, or
\* writes points for the mission the periodic pass is processing.
C11_ManualRunLeavesPeriodicLoopAlone ==
    [][ManualPassStep =>
          /\ running' = running
          /\ pc'["periodic"] = pc["periodic"]
          /\ (PeriodicInPass /\ connected) => connected'
          /\ (PeriodicInPass /\ idx["periodic"] > 0) =>
                StoredFor(missions["periodic"][idx["periodic"]])'
                    = StoredFor(missions["periodic"][idx["periodic"]])]_vars

\* the awaits at which a task can be suspended
Awaits ==
    Statuses \cup {"idle", "connecting", "points", "sleep2", "disconnecting",
                   "cancelled", "sleeping", "stopped"}

\* the periodic task is suspended at an await that will end: a timer, a call of
\* the client (a further pass is begun only below MaxPasses)
PeriodicAtAwait ==
    /\ pc["periodic"] \notin {"idle", "stopped"}
    /\ (pc["periodic"] = "sleeping" /\ running) => passes < MaxPasses

\* where the tasks are
position == <<pc, idx, point_k>>

\* the await ends and the periodic task runs up to its next await
PeriodicStep ==
    /\ PeriodicAtAwait
    /\ pc' \in [Tasks -> Awaits]
    /\ idx' \in [Tasks -> 0..NumMissions]
    /\ point_k' \in [Tasks -> 0..(3 * MaxNumPoints)]
    /\ <<pc'["periodic"], idx'["periodic"], point_k'["periodic"]>>
          # <<pc["periodic"], idx["periodic"], point_k["periodic"]>>

\* Specification SpecLoop: the passes under the scheduling of the event loop:
\* every await of the periodic task ends (the timers expire, the calls of the
\* client return or raise), so the periodic task does not stay at an await
\* for ever.
SpecLoop == Init /\ [][Next]_vars /\ WF_position(PeriodicStep)

\* stop() has been called on the started loop
StopRequested == ~running /\ pc["periodic"] # "idle"

\* C12: once stop() has been called, start_monitoring begins no new pass (the
\* pass in progress may finish), and the loop eventually terminates.
C12_StoppedLoopBeginsNoPassAndTerminates ==
    /\ [][(StopRequested /\ pc["periodic"] = "sleeping")
             => pc'["periodic"] \in {"sleeping", "stopped"}]_vars
    /\ (StopRequested ~> pc["periodic"] = "stopped")

\* the loop has terminated after a pass of it stored a trajectory
C12_Witness ==
    /\ ~running
    /\ pc["periodic"] = "stopped"
    /\ pc["manual"] = "idle"
    /\ passes = 1
    /\ generations = 1

\* C13: whenever a pass that connected the publish channel is left (normally,
\* with zero missions, through an exception or through the cancellation of the
\* periodic task), the channel is disconnected.
C13_ChannelReleasedWhenPassIsLeft ==
    [][\A t \in Tasks :
          ( /\ bracket[t]
            /\ pc[t] \notin {"idle", "sleeping", "stopped"}
            /\ pc'[t] \in {"idle", "sleeping", "stopped"} )
          => ~connected']_vars

\* the statuses a pass sends for one mission follow each other in the order
\* generated, injection, detection, sent (the points go out between the last
\* two), and the pass turns to the next mission only behind the last status of
\* the current one; a cancelled pass sends nothing more
StatusesInOrder(sent) ==
    \A t \in Tasks :
        /\ (pc[t] = "TRAJECTORY_GENERATED" /\ pc'[t] # pc[t])
              => /\ pc'[t] \in {"ANOMALY_INJECTED", "NO_ANOMALY_INJECTED", "cancelled"}
                 /\ idx'[t] = idx[t]
        /\ ( /\ pc[t] \in {"ANOMALY_INJECTED", "NO_ANOMALY_INJECTED"}
             /\ pc'[t] \in Statuses \ {pc[t]} )
              => /\ pc'[t] \in {"ANOMALY_DETECTED", "NO_ANOMALY_DETECTED",
                                "NO_TRAJECTORY_FOR_DETECTION"}
                 /\ idx'[t] = idx[t]
        /\ (pc[t] \in {"ANOMALY_DETECTED", "NO_ANOMALY_DETECTED"} /\ pc'[t] # pc[t])
              => pc'[t] \in {"points", "cancelled"}
        /\ (pc[t] = "points" /\ pc'[t] \notin {"points", "cancelled"})
              => /\ pc'[t] = sent
                 /\ idx'[t] = idx[t]
        /\ (pc[t] = sent /\ pc'[t] # pc[t]) => pc'[t] \in {"sleep2", "cancelled"}
        /\ (idx[t] > 0 /\ idx'[t] = idx[t] + 1)
              => pc[t] \in {"sleep2", "GENERATION_FAILED", "NO_TRAJECTORY_FOR_DETECTION"}

\* C14 (amended): for every mission that a pass processes through all phases,
\* the statuses the pass sends for it are, in this order, TRAJECTORY_GENERATED,
\* one of ANOMALY_INJECTED / NO_ANOMALY_INJECTED, one of ANOMALY_DETECTED /
\* NO_ANOMALY_DETECTED, then TRAJECTORY_SENT_TO_IOT_HUB, and no status of the
\* next mission is sent before the last status of the current one.
C14_StatusesInOrder ==
    [][StatusesInOrder("TRAJECTORY_SENT_TO_IOT_HUB")]_vars

\* C14 as stated: the last status of a mission is TRAJECTORY_SENT
C14_StatusesInOrder_AsStated ==
    [][StatusesInOrder("TRAJECTORY_SENT")]_vars

\* the last status of the first mission went out and the pass is about to turn
\* to the second
C14_Witness ==
    \E t \in Tasks :
        /\ pc[t] = "sleep2"
        /\ lastMsg.called
        /\ idx[t] < Len(missions[t])

\* task t runs on from its await
Moved(t) == <<pc[t], idx[t], point_k[t]>>' # <<pc[t], idx[t], point_k[t]>>

\* C15: if persisting a mission's generated trajectory fails, none of its points
\* is stored (the tables are as before), the mission is reported with
\* GENERATION_FAILED, and the pass goes from that status straight to the next
\* mission (without injection and detection for the failed one), or to the end
\* of the loop behind the last mission.
C15_FailedSaveSkipsMission ==
    [][\A t \in Tasks :
          /\ (Moved(t) /\ pc'[t] = "GENERATION_FAILED")
                => /\ UNCHANGED dbVars
                   /\ last_error'.called
                   /\ last_error'.stage = "persistence"
                   /\ last_error'.mission_id = missions'[t][idx'[t]]
          /\ (Moved(t) /\ pc[t] = "GENERATION_FAILED" /\ pc'[t] # "cancelled")
                => IF idx[t] < Len(missions[t])
                   THEN /\ idx'[t] = idx[t] + 1
                        /\ pc'[t] \in {"TRAJECTORY_GENERATED", "GENERATION_FAILED",
                                       "disconnecting"}
                   ELSE pc'[t] = "disconnecting"]_vars

\* the pass has stored the trajectory of the second mission and nothing for the
\* first: the save of the first failed and the pass went on
C15_Witness ==
    \E t \in Tasks :
        /\ pc[t] = "TRAJECTORY_GENERATED"
        /\ idx[t] = 2
        /\ StoredFor(missions[t][1]) = {}
        /\ StoredFor(missions[t][2]) # {}

\* the send of the status or of the point at which task t waits fails
PublishFailed(t) ==
    /\ pc[t] \in Statuses \cup {"points"}
    /\ Moved(t)
    /\ pc'[t] # "cancelled"
    /\ ~lastMsg'.called

\* C16: a failure to publish a status or point message never aborts the
\* pipeline: the pass goes on as after a successful send, to the injection, the
\* detection, the points, the last status and the next mission; it leaves the
\* loop only behind the last mission or on an exception of another step.
C16_PublishFailureDoesNotAbort ==
    [][\A t \in Tasks :
          PublishFailed(t) =>
             /\ pc'[t] = "disconnecting"
                   => last_error'.called \/ idx[t] = Len(missions[t])
             /\ pc[t] = "TRAJECTORY_GENERATED"
                   => pc'[t] \in {"ANOMALY_INJECTED", "NO_ANOMALY_INJECTED"}
             /\ pc[t] \in {"ANOMALY_INJECTED", "NO_ANOMALY_INJECTED"}
                   => pc'[t] \in {"ANOMALY_DETECTED", "NO_ANOMALY_DETECTED",
                                  "NO_TRAJECTORY_FOR_DETECTION", "disconnecting"}
             /\ pc[t] \in {"ANOMALY_DETECTED", "NO_ANOMALY_DETECTED"}
                   => pc'[t] = "points"
             /\ pc[t] = "points" => pc'[t] = "TRAJECTORY_SENT_TO_IOT_HUB"
             /\ pc[t] = "TRAJECTORY_SENT_TO_IOT_HUB" => pc'[t] = "sleep2"
             /\ (pc[t] \in {"GENERATION_FAILED", "NO_TRAJECTORY_FOR_DETECTION"}
                 /\ idx[t] < Len(missions[t]))
                   => idx'[t] = idx[t] + 1]_vars

\* the send of GENERATION_FAILED for the first mission failed and the pass has
\* gone on to the second mission and stored its trajectory
C16_Witness ==
    \E t \in Tasks :
        /\ pc[t] = "TRAJECTORY_GENERATED"
        /\ idx[t] = 2
        /\ ~lastMsg.called
        /\ StoredFor(missions[t][1]) = {}
        /\ StoredFor(missions[t][2]) # {}

\* C17: a pass with zero active missions completes without raising, publishes
\* no mission-status message, and writes no trajectory point and no anomaly
\* record: it goes from the query straight to the finally clause and returns.
C17_EmptyPassDoesNothing ==
    [][\A t \in Tasks :
          /\ ( /\ Moved(t)
               /\ pc[t] \in {"idle", "sleeping", "connecting"}
               /\ pc'[t] \notin {"idle", "sleeping", "connecting", "stopped"}
               /\ missions'[t] = <<>> )
                => /\ pc'[t] = "disconnecting"
                   /\ ~lastMsg'.called
                   /\ ~last_error'.called
                   /\ UNCHANGED dbVars
          /\ ( /\ Moved(t)
               /\ pc[t] = "disconnecting"
               /\ missions[t] = <<>> )
                => /\ pc'[t] \in {"idle", "sleeping", "stopped"}
                   /\ ~lastMsg'.called
                   /\ ~last_error'.called
                   /\ UNCHANGED dbVars]_vars

\* a pass that connected found no mission while trajectories are stored
C17_Witness ==
    \E t \in Tasks :
        /\ pc[t] = "disconnecting"
        /\ missions[t] = <<>>
        /\ bracket[t]
        /\ Trajet # {}

\* C25: trajectory rows follow last-writer-wins per mission: after successive
\* passes over the same active mission, the mission's stored trajectory
\* consists only of the points written by the most recent pass, with no
\* points left over from earlier passes: when a pass stores the points it has
\* generated for a mission, no row that the mission had before is left.
C25_LastWriterWins ==
    [][\A t \in Tasks :
          (pc'[t] = "TRAJECTORY_GENERATED" /\ Moved(t))
          => \A r \in Trajet' :
                r.mission_id = missions'[t][idx'[t]] => r \notin Trajet]_vars

(***************************************************************************)
(* Specification SpecInject: calls of the injection service on stored      *)
(* trajectories, as the endpoints of /anomalies make them: update_config,  *)
(* inject_anomalies_for_mission and clean_contaminated_trajectories.  The   *)
(* draws and the fault of the calls are fixed by input.                    *)
(***************************************************************************)
MaxCalls == 2

\* an AnomalyConfig as a request can carry it: the probabilities lowered
ConfigOverride ==
    [_load_default_config EXCEPT !.injection_probability = 30]

\* an AnomalyConfig as a request can carry it: one rule, for the kind
\* sortie_zone_autorisee
ZoneOverride ==
    [injection_probability |-> 100,
     anomaly_types |-> << [type |-> SORTIE_ZONE_AUTORISEE, probability |-> 100] >>]

\* one generated trajectory stored for every mission
StoredTrajectories ==
    UNION {InsertRows((m - 1) * MinNumPoints,
                      generate_trajectory_points(Mission(m), StoredDraw)) : m \in MissionIds}

\* records of the table Anomalie before the calls: none, a detected anomaly
\* of the first mission, or the sentinel of the last mission
StoredAnomalies ==
    {{},
     {[id |-> 1, mission_id |-> 1, type |-> "ISOLATION_FOREST_ANOMALY",
       description |-> <<"Anomalie detectee">>]},
     {[id |-> 1, mission_id |-> NumMissions, type |-> TRAJECTORY_CONTAMINATED,
       description |-> ContaminationDescription(<<VITESSE_ANORMALE>>)]}}

InitInject ==
    /\ iot_client = "None"
    /\ connected = FALSE
    /\ running = FALSE
    /\ input \in [d : Draws, fault : InjectFaults,
                  config : {ConfigOverride, ZoneOverride}]
    /\ Trajet = StoredTrajectories
    /\ trajet_seq = Cardinality(Trajet)
    /\ Anomalie \in StoredAnomalies
    /\ anomalie_seq = Cardinality(Anomalie)
    /\ detector = [scaler_fitted |-> FALSE, model_fitted |-> FALSE]
    /\ config = _load_default_config
    /\ pc = [t \in Tasks |-> "idle"]
    /\ missions = [t \in Tasks |-> <<>>]
    /\ idx = [t \in Tasks |-> 0]
    /\ final_trajectory = [t \in Tasks |-> <<>>]
    /\ point_k = [t \in Tasks |-> 0]
    /\ bracket = [t \in Tasks |-> FALSE]
    /\ last_update = NoCall
    /\ last_generation = NoCall
    /\ last_transform = NoCall
    /\ last_training = NoCall
    /\ passes = 0
    /\ generations = 0
    /\ lastMsg = NoCall
    /\ last_injection = NoCall
    /\ last_detection = NoCall
    /\ last_error = NoCall
    /\ calls = 0

\* update_config with the configuration of the request
UpdateConfig ==
    /\ config # input.config
    /\ config' = input.config
    /\ last_injection' = NoCall
    /\ UNCHANGED <<dbVars, channelVars, taskVars, detector, lastMsg, last_detection,
                   last_error, input, calls, last_update, last_generation,
                   last_transform, last_training>>

\* one call of inject_anomalies_for_mission
InjectCall ==
    /\ calls < MaxCalls
    /\ calls' = calls + 1
    /\ \E mission_id \in MissionIds :
          \E call \in {InjectionCall(DB, config, mission_id, input.d, input.fault)} :
             /\ SetDB(call.after)
             /\ last_injection' = call
    /\ UNCHANGED <<channelVars, taskVars, detector, config, lastMsg, last_detection,
                   last_error, input, last_update, last_generation,
                   last_transform, last_training>>

\* clean_contaminated_trajectories without mission_ids: every sentinel goes,
\* the points stay as they are
CleanCall ==
    /\ Anomalie' = {a \in Anomalie : a.type # TRAJECTORY_CONTAMINATED}
    /\ last_injection' = NoCall
    /\ UNCHANGED <<Trajet, trajet_seq, anomalie_seq, channelVars, taskVars, detector,
                   config, lastMsg, last_detection, last_error, input, calls, last_update, last_generation,
                   last_transform, last_training>>

NextInject == UpdateConfig \/ InjectCall \/ CleanCall

SpecInject == InitInject /\ [][NextInject]_vars

(***************************************************************************)
(* Claims on inject_anomalies_for_mission (checked under SpecInject)       *)
(***************************************************************************)

\* the latest call injected at least one kind
Injected(call) ==
    /\ call.called
    /\ call.result.success
    /\ call.result.anomalies_injected # <<>>

\* the rows of the mission of the call, before and after it
RowsBefore(call) == {r \in call.before.Trajet : r.mission_id = call.mission_id}
RowsAfter(call) == {r \in call.after.Trajet : r.mission_id = call.mission_id}

\* point p of a trajectory and row r carry the same values
SamePoint(p, r) ==
    /\ p.mission_id = r.mission_id
    /\ p.timestamp = r.timestamp
    /\ p.latitude = r.latitude
    /\ p.longitude = r.longitude
    /\ p.vitesse = r.vitesse

\* C3: when at least one kind is injected, the mission's stored point set after
\* the call is exactly the modified trajectory: every row stored before the
\* call that is not part of the modified trajectory is gone, every stored row is
\* a point of the modified trajectory, and there are as many rows as points.
C3_StoredSetIsModifiedTrajectory ==
    Injected(last_injection) =>
        /\ \A r \in RowsBefore(last_injection) :
              (\A k \in 1..Len(last_injection.modified_trajectory) :
                  last_injection.modified_trajectory[k].id # r.id)
              => \A q \in RowsAfter(last_injection) : q.id # r.id
        /\ \A q \in RowsAfter(last_injection) :
              \E k \in 1..Len(last_injection.modified_trajectory) :
                  SamePoint(last_injection.modified_trajectory[k], q)
        /\ Cardinality(RowsAfter(last_injection))
              = Len(last_injection.modified_trajectory)

\* the sentinel records of the mission of the call after it
SentinelsAfter(call) ==
    {a \in call.after.Anomalie : /\ a.mission_id = call.mission_id
                                 /\ a.type = TRAJECTORY_CONTAMINATED}

\* the kind names a description lists behind its prefix
KindsListed(description) ==
    SelectSeq(Tail(description), LAMBDA x : x # ", ")

\* C5: after a call that injected a non-empty list of kinds K for mission m,
\* exactly one TRAJECTORY_CONTAMINATED record exists for m and its description
\* lists exactly the kinds in K.
C5_ExactlyOneSentinelListingKinds ==
    Injected(last_injection) =>
        /\ Cardinality(SentinelsAfter(last_injection)) = 1
        /\ \A a \in SentinelsAfter(last_injection) :
              KindsListed(a.description) = last_injection.result.anomalies_injected

\* a call injected several kinds into a mission next to other anomaly records
C5_Witness ==
    /\ Injected(last_injection)
    /\ Len(last_injection.result.anomalies_injected) > 1
    /\ last_injection.before.Anomalie # {}

\* the call read a trajectory and its draw against injection_probability failed
GateFailed(call) ==
    /\ call.called
    /\ call.fault # "read"
    /\ RowsBefore(call) # {}
    /\ call.mission_id \notin ContaminatedMissionIds(call.before.Anomalie)
    /\ call.d.gate > call.config.injection_probability

\* C6: when the draw against injection_probability fails, the call returns an
\* empty list of injected kinds with the point count unchanged and leaves the
\* stored points and the anomaly records as they were.
C6_FailedGateChangesNothing ==
    GateFailed(last_injection) =>
        /\ last_injection.result.success
        /\ last_injection.result.anomalies_injected = <<>>
        /\ last_injection.result.original_points_count
              = Cardinality(RowsBefore(last_injection))
        /\ last_injection.result.modified_points_count
              = last_injection.result.original_points_count
        /\ last_injection.after = last_injection.before

\* the gate failed on a call whose draws would have injected a kind, with
\* anomaly records stored
C6_Witness ==
    /\ GateFailed(last_injection)
    /\ \E k \in 1..Len(last_injection.config.anomaly_types) :
          last_injection.d.kinds[k] <= last_injection.config.anomaly_types[k].probability
    /\ last_injection.before.Anomalie # {}

\* C27: whenever inject_anomalies_for_mission returns a result with
\* success = false, the mission's stored points and anomaly records are
\* unchanged by the call; equivalently, whenever the call has written modified
\* points or the contamination sentinel, the returned result has
\* success = true and lists the injected kinds.  This holds also when the
\* modified trajectory has fewer points than the original.
C27_FailedInjectionWritesNothing ==
    (last_injection.called /\ ~last_injection.result.success)
    => /\ last_injection.after.Trajet = last_injection.before.Trajet
       /\ last_injection.after.Anomalie = last_injection.before.Anomalie

\* the call was made for a mission that carried the sentinel
OnContaminated(call) ==
    /\ call.called
    /\ call.mission_id \in ContaminatedMissionIds(call.before.Anomalie)

\* C28: contamination is sticky: while a mission carries the
\* TRAJECTORY_CONTAMINATED sentinel, no call of inject_anomalies_for_mission
\* (inject_anomalies_batch makes one such call per mission) modifies its
\* stored points or its sentinel, and the call reports that there is no clean
\* trajectory; a mission loses its sentinel only in a step of
\* clean_contaminated_trajectories, never in a step of an injection.
C28_ContaminationIsSticky ==
    /\ [](OnContaminated(last_injection)
            => /\ last_injection.after = last_injection.before
               /\ last_injection.result = InjectionFailed(last_injection.mission_id))
    /\ [][\A m \in MissionIds :
             (/\ m \in ContaminatedMissionIds(Anomalie)
              /\ m \notin ContaminatedMissionIds(Anomalie'))
             => /\ ~last_injection'.called
                /\ Trajet' = Trajet]_vars

\* a call whose draws select every kind was made for a mission that carried
\* the sentinel, and the database did not fail
C28_Witness ==
    /\ OnContaminated(last_injection)
    /\ last_injection.fault = "none"
    /\ last_injection.d.kinds = <<5, 5, 5, 5, 5>>
    /\ last_injection.d.gate <= last_injection.config.injection_probability
    /\ RowsBefore(last_injection) # {}

\* the kinds drawn by the loop of the call whose transform has changed the
\* trajectory accumulated so far
RECURSIVE AppliedKinds(_, _, _, _)
RECURSIVE AppliedStep(_, _, _, _, _)
AppliedKinds(anomaly_types, k, trajectory, d) ==
    IF k > Len(anomaly_types) THEN <<>>
    ELSE IF d.kinds[k] <= anomaly_types[k].probability
    THEN AppliedStep(anomaly_types, k, trajectory,
                     ApplyTransform(anomaly_types[k].type, trajectory, d), d)
    ELSE AppliedKinds(anomaly_types, k + 1, trajectory, d)

AppliedStep(anomaly_types, k, trajectory, transformed, d) ==
    (IF transformed # trajectory THEN <<anomaly_types[k].type>> ELSE <<>>)
        \o AppliedKinds(anomaly_types, k + 1, transformed, d)

KindsApplied(call) ==
    AppliedKinds(call.config.anomaly_types, 1,
                 get_clean_trajectories(call.before.Trajet, call.before.Anomalie,
                                        call.mission_id, call.fault # "read"),
                 call.d)

\* C29: every kind named in the returned list of injected kinds (and
\* therefore in the sentinel description) is a kind whose transform was
\* actually applied to the trajectory: a kind whose transform left the
\* accumulated trajectory unchanged is not listed, and when no transform
\* changed the trajectory no sentinel is written.
C29_ListedKindsWereApplied ==
    last_injection.called =>
        /\ \A j \in 1..Len(last_injection.result.anomalies_injected) :
              \E i \in 1..Len(KindsApplied(last_injection)) :
                  KindsApplied(last_injection)[i]
                      = last_injection.result.anomalies_injected[j]
        /\ KindsApplied(last_injection) = <<>>
              => last_injection.after.Anomalie = last_injection.before.Anomalie

(***************************************************************************)
(* Specification SpecConfig: the configuration of the injection services   *)
(* of the process.  lifespan constructs the injector of the orchestrator   *)
(* once (its configuration is config); every request to /anomalies gets a  *)
(* service of its own from get_anomaly_service.                            *)
(***************************************************************************)

\* AnomalyInjectionService(db): the constructor loads the default configuration
AnomalyInjectionService == [config |-> _load_default_config]

\* the dependency of the endpoints: a new service for every request
get_anomaly_service == AnomalyInjectionService

update_config(service, new_config) == [service EXCEPT !.config = new_config]

\* GET /anomalies/config: the configuration of the service of the request
get_anomaly_config == get_anomaly_service.config

\* PUT /anomalies/config: update_config on the service of the request
update_anomaly_config ==
    /\ ~last_update.called
    /\ last_update' = [called |-> TRUE, new_config |-> input.config,
                       service |-> update_config(get_anomaly_service, input.config)]
    /\ last_injection' = NoCall
    /\ UNCHANGED <<dbVars, channelVars, taskVars, detector, config, lastMsg,
                   last_detection, last_error, input, calls, last_generation,
                   last_transform, last_training>>

\* POST /anomalies/inject/{mission_id}: 400 for a mission already contaminated,
\* else inject_anomalies_for_mission on the service of the request
InjectRequest ==
    /\ calls < MaxCalls
    /\ calls' = calls + 1
    /\ \E mission_id \in MissionIds \ ContaminatedMissionIds(Anomalie) :
          \E call \in {InjectionCall(DB, get_anomaly_service.config, mission_id,
                                     input.d, input.fault)} :
             /\ SetDB(call.after)
             /\ last_injection' = call
    /\ UNCHANGED <<channelVars, taskVars, detector, config, lastMsg, last_detection,
                   last_error, input, last_update, last_generation,
                   last_transform, last_training>>

\* the injection step of a pass: inject_anomalies_for_mission on the injector
\* of the orchestrator
OrchestratorInject ==
    /\ calls < MaxCalls
    /\ calls' = calls + 1
    /\ \E mission_id \in MissionIds :
          \E call \in {InjectionCall(DB, config, mission_id, input.d, input.fault)} :
             /\ SetDB(call.after)
             /\ last_injection' = call
    /\ UNCHANGED <<channelVars, taskVars, detector, config, lastMsg, last_detection,
                   last_error, input, last_update, last_generation,
                   last_transform, last_training>>

NextConfig == update_anomaly_config \/ InjectRequest \/ OrchestratorInject

SpecConfig == InitInject /\ [][NextConfig]_vars

\* C18: the configuration is process-wide: after an update through
\* PUT /anomalies/config, a read of the configuration returns the new
\* configuration, the injector of the orchestrator holds it, and every later
\* injection, from a request or from the orchestrator, uses it.
C18_ConfigIsProcessWide ==
    last_update.called =>
        /\ get_anomaly_config = last_update.new_config
        /\ config = last_update.new_config
        /\ last_injection.called => last_injection.config = last_update.new_config

(***************************************************************************)
(* Specification SpecGenerate: calls of generate_trajectory_points on       *)
(* missions with and without a predefined route and with valid, short and  *)
(* invalid windows.                                                        *)
(***************************************************************************)

\* a route that lies inside MOROCCO_BOUNDS and ends on its northern edge
EdgeRoute == <<<<35880, -5400>>, <<35898, -5350>>, <<35900, -5300>>>>

\* the missions handed to the generator: the stored first mission (7 hours,
\* predefined route); 2 hours, 40 minutes, an end before the start and an end
\* at the start, the first three without a route; 2 hours along EdgeRoute
GenMissions ==
    {Mission(1),
     [Mission(1) EXCEPT !.dateFin = 480 + 120, !.trajet_predefini = <<>>],
     [Mission(1) EXCEPT !.dateFin = 480 + 40, !.trajet_predefini = <<>>],
     [Mission(1) EXCEPT !.dateFin = 480 - 60, !.trajet_predefini = <<>>],
     [Mission(1) EXCEPT !.dateFin = 480],
     [Mission(1) EXCEPT !.dateFin = 480 + 120, !.trajet_predefini = EdgeRoute]}

\* the draws of the calls: Tanger or Oujda to Agadir or Tetouan, the extreme
\* variations of the waypoints and of the positions
GenInputs ==
    [start_city : {5, 8}, end_city : {6, 10}, waypoint_variation : {-10, 10},
     num_points : MinNumPoints..MaxNumPoints, initial_speed : {45},
     terrain_type : {"urban"}, speed_variation : {5}, stop_every : {7},
     lat_variation : {-5, 5}, lon_variation : {-5, 5}]

InitGenerate ==
    /\ iot_client = "None"
    /\ connected = FALSE
    /\ running = FALSE
    /\ input \in [mission : GenMissions, g : GenInputs]
    /\ Trajet = {}
    /\ trajet_seq = 0
    /\ Anomalie = {}
    /\ anomalie_seq = 0
    /\ detector = [scaler_fitted |-> FALSE, model_fitted |-> FALSE]
    /\ config = _load_default_config
    /\ pc = [t \in Tasks |-> "idle"]
    /\ missions = [t \in Tasks |-> <<>>]
    /\ idx = [t \in Tasks |-> 0]
    /\ final_trajectory = [t \in Tasks |-> <<>>]
    /\ point_k = [t \in Tasks |-> 0]
    /\ bracket = [t \in Tasks |-> FALSE]
    /\ passes = 0
    /\ generations = 0
    /\ lastMsg = NoCall
    /\ last_injection = NoCall
    /\ last_detection = NoCall
    /\ last_error = NoCall
    /\ calls = 0
    /\ last_update = NoCall
    /\ last_generation = NoCall
    /\ last_transform = NoCall
    /\ last_training = NoCall

\* one call of generate_trajectory_points
GenerateCall ==
    /\ ~last_generation.called
    /\ last_generation' =
          [called |-> TRUE, mission |-> input.mission, g |-> input.g,
           points |-> generate_trajectory_points(input.mission, input.g)]
    /\ UNCHANGED <<dbVars, channelVars, taskVars, detector, config, lastMsg,
                   last_injection, last_detection, last_error, input, calls,
                   last_update, last_transform, last_training>>

NextGenerate == GenerateCall

SpecGenerate == InitGenerate /\ [][NextGenerate]_vars

\* C19: every point of a generated trajectory lies inside MOROCCO_BOUNDS,
\* whether the mission has a predefined route or the route is synthesized
\* between two reference cities.
C19_PointsInsideBounds ==
    last_generation.called =>
        \A k \in 1..Len(last_generation.points) :
            /\ last_generation.points[k].latitude >= MOROCCO_BOUNDS.min_lat
            /\ last_generation.points[k].latitude <= MOROCCO_BOUNDS.max_lat
            /\ last_generation.points[k].longitude >= MOROCCO_BOUNDS.min_lon
            /\ last_generation.points[k].longitude <= MOROCCO_BOUNDS.max_lon

MaxTransformLen == 12

TransformSpeeds == {"cruise", "fast", "alternating"}

\* the draws of one transform
TransformDraws ==
    [gate : {50}, kinds : {<<5, 5, 5, 5, 5>>}, early_ratio : {30, 70},
     return_speed : {40}, deviation_duration : {30}, u_start : {0, 100},
     lat_offset : {40}, deviation_speed : {30}, stop_duration : {30},
     u_stops : {<<50>>}, stop_speed : {1}, speed_factor : {1, 10, 25},
     duration_min : {5, 30}, early_start : {60, 65, 180}, late_end : {60, 240},
     early_speed : {20}, late_speed : {15}]

\* the points of mission 1 as stored
FreshTrajectory(len, speeds) == TestTrajectory(len, speeds, "line", MissionDateDebut(1))

\* the points of mission 1 read back after an injection of
\* deplacement_hors_heures has been saved and its sentinel removed
RereadAfterOutOfHours(len, early_start, late_end) ==
    get_clean_trajectories(
        _save_contaminated_trajectory(
            InsertRows(0, FreshTrajectory(len, "cruise")), {}, len,
            _inject_out_of_hours_anomaly(FreshTrajectory(len, "cruise"),
                                         early_start, late_end, 20, 15)),
        {}, 1, TRUE)

TransformTrajectories ==
    {FreshTrajectory(len, speeds) : len \in 1..MaxTransformLen, speeds \in TransformSpeeds}
        \cup {RereadAfterOutOfHours(MaxTransformLen, 60, late_end) : late_end \in {60, 240}}

TransformKinds == {RETOUR_PREMATURE, TRAJET_DIVERGENT, ARRET_NON_AUTORISE,
                   VITESSE_ANORMALE, DEPLACEMENT_HORS_HEURES}

InitTransform ==
    /\ iot_client = "None"
    /\ connected = FALSE
    /\ running = FALSE
    /\ input \in [trajectory : TransformTrajectories, kind : TransformKinds,
                  d : TransformDraws]
    /\ Trajet = {}
    /\ trajet_seq = 0
    /\ Anomalie = {}
    /\ anomalie_seq = 0
    /\ detector = [scaler_fitted |-> FALSE, model_fitted |-> FALSE]
    /\ config = _load_default_config
    /\ pc = [t \in Tasks |-> "idle"]
    /\ missions = [t \in Tasks |-> <<>>]
    /\ idx = [t \in Tasks |-> 0]
    /\ final_trajectory = [t \in Tasks |-> <<>>]
    /\ point_k = [t \in Tasks |-> 0]
    /\ bracket = [t \in Tasks |-> FALSE]
    /\ passes = 0
    /\ generations = 0
    /\ lastMsg = NoCall
    /\ last_injection = NoCall
    /\ last_detection = NoCall
    /\ last_error = NoCall
    /\ calls = 0
    /\ last_update = NoCall
    /\ last_generation = NoCall
    /\ last_transform = NoCall
    /\ last_training = NoCall

\* one call of the transform of input.kind
TransformCall ==
    /\ ~last_transform.called
    /\ last_transform' =
          [called |-> TRUE, kind |-> input.kind, trajectory |-> input.trajectory,
           d |-> input.d,
           returned |-> ApplyTransform(input.kind, input.trajectory, input.d)]
    /\ UNCHANGED <<dbVars, channelVars, taskVars, detector, config, lastMsg,
                   last_injection, last_detection, last_error, input, calls,
                   last_update, last_generation, last_training>>

NextTransform == TransformCall

SpecTransform == InitTransform /\ [][NextTransform]_vars

\* the 0-based positions of the section whose speeds
\* _inject_abnormal_speed_anomaly rewrites
SpeedSection(call) ==
    LET n == Len(call.trajectory)
        start_index == RandInt(0, n \div 2, call.d.u_start)
        end_index == Min(start_index + call.d.duration_min \div 5, n - 1)
    IN  start_index..(end_index - 1)

AbnormalSpeedCall(call) ==
    /\ call.called
    /\ call.kind = VITESSE_ANORMALE
    /\ Len(call.trajectory) >= 3

\* C22 (as stated): ABNORMAL_SPEED injection never produces a speed outside
\* [0,150]: for every input trajectory of at least 3 points, whatever its
\* input speeds and whatever factor is drawn, every speed in the returned
\* trajectory is in [0,150].
C22_EverySpeedInRange_AsStated ==
    AbnormalSpeedCall(last_transform) =>
        \A k \in 1..Len(last_transform.returned) :
            /\ last_transform.returned[k].vitesse >= 0
            /\ last_transform.returned[k].vitesse <= 150

\* C22 (amended): for every input trajectory of at least 3 points, whatever
\* its input speeds and whatever factor is drawn, every speed that the
\* ABNORMAL_SPEED injection writes (the speeds of the points of the rewritten
\* section) is in [0,150]; the points outside the section, the last point
\* among them, are returned with their input speed.
C22_RewrittenSpeedsInRange ==
    AbnormalSpeedCall(last_transform) =>
        /\ Len(last_transform.returned) = Len(last_transform.trajectory)
        /\ \A k \in 1..Len(last_transform.returned) :
              IF k - 1 \in SpeedSection(last_transform)
              THEN /\ last_transform.returned[k].vitesse >= 0
                   /\ last_transform.returned[k].vitesse <= 150
              ELSE last_transform.returned[k].vitesse
                      = last_transform.trajectory[k].vitesse

\* a speed above 150 km/h was rewritten with the factor 2.5 next to points
\* that kept a speed above 150 km/h
C22_Witness ==
    /\ AbnormalSpeedCall(last_transform)
    /\ last_transform.d.speed_factor = 25
    /\ \E k \in 1..Len(last_transform.returned) :
          /\ k - 1 \in SpeedSection(last_transform)
          /\ last_transform.trajectory[k].vitesse > 150
          /\ last_transform.returned[k].vitesse = 150
    /\ \E k \in 1..Len(last_transform.returned) :
          /\ k - 1 \notin SpeedSection(last_transform)
          /\ last_transform.returned[k].vitesse > 150

EarlyReturnCall(call) ==
    /\ call.called
    /\ call.kind = RETOUR_PREMATURE
    /\ Len(call.trajectory) >= 10

\* the first position (1-based) of the synthesized return path in the
\* returned trajectory
ReturnPathStart(call) == (Len(call.trajectory) * call.d.early_ratio) \div 100 + 1

\* C23: after EARLY_RETURN injection on a trajectory of at least 10 points,
\* the last timestamp of the modified trajectory (truncated part plus
\* synthesized return path) is less than or equal to the original mission
\* end, and the return-path timestamps do not decrease.
C23_EarlyReturnEndsInsideWindow ==
    EarlyReturnCall(last_transform) =>
        /\ last_transform.returned[Len(last_transform.returned)].timestamp
              <= last_transform.trajectory[1].mission_end
        /\ \A k \in ReturnPathStart(last_transform)..(Len(last_transform.returned) - 1) :
              last_transform.returned[k].timestamp
                  <= last_transform.returned[k + 1].timestamp

OutOfHoursCall(call) ==
    /\ call.called
    /\ call.kind = DEPLACEMENT_HORS_HEURES
    /\ Len(call.trajectory) >= 2

\* the number of points the injection puts in front of the trajectory
EarlyPointsAdded(call) == Max(2, call.d.early_start \div 10)

====
